---- MODULE Spec2Model ----
(***************************************************************************)
(* A model of the Glacier bytecode compiler and stack VM (src/src/vm):     *)
(* vm_bc.rs (compiler, peephole pass, interpreter), value.rs (values and   *)
(* operators), bytecode.rs (opcodes), memory.rs (allocation) and the REPL  *)
(* driver of repl.rs that feeds programs to one VM.                        *)
(*                                                                         *)
(* Conventions.  Rust indices are 0-based and TLA+ sequences 1-based: the  *)
(* code unit at Rust offset i is bytecodes[i + 1], the stack slot idx is   *)
(* stack[idx + 1], the constant idx is constants[idx + 1].  Operands and   *)
(* pc keep their Rust (0-based) values.  Option<T> is <<>> (None) or <<x>> *)
(* (Some(x)).  A *mut Value is an integer: p > 0 is the p-th cell handed   *)
(* out by alloc_new_value, p < 0 is the address of constants[-p - 1].      *)
(***************************************************************************)
EXTENDS Integers, Sequences, FiniteSets, TLC

(***************************************************************************)
(* Bounds of the model.                                                    *)
(***************************************************************************)
\* number of lines the REPL reads in one session
MaxLines == 2
\* opcodes dispatched by one execute() call
MaxSteps == 60
\* width of the model's machine integer, standing for the 64 bits of i64
IntBits == 8

(***************************************************************************)
(* Program constants.                                                      *)
(***************************************************************************)
CONSTANT_SIZE == 1024
STACK_SIZE == 8192
BOOL_FALSE_CONSTANT == 0
BOOL_TRUE_CONSTANT == 1
NULL_CONSTANT == 2
ByteBits == 16

NOOP == 0
POP_LAST == 1
REPLACE == 2
SET_IN_PLACE == 3
LOAD_CONST == 4
LOAD_LOCAL == 5
MAKE_ARRAY == 6
DEBUG_PRINT == 7
ECHO_PRINT == 8
JUMP_IF_FALSE == 9
JUMP_IF_FALSE_NO_POP == 10
JUMP == 11
GET == 12
UNARY_NEG == 13
UNARY_NOT == 14
BINARY_ADD == 15
BINARY_SUB == 16
BINARY_MUL == 17
BINARY_DIV == 18
BINARY_MOD == 19
BINARY_EXP == 20
BINARY_EQ == 21
BINARY_NE == 22
BINARY_LT == 23
BINARY_LE == 24
BINARY_GT == 25
BINARY_GE == 26

\* `x as Byte`: truncation to a 16-bit code unit
AsByte(n) == n % (2 ^ ByteBits)

\* operands(bytecode): MAKE_ARRAY is not in the list
operands(bytecode) ==
    IF bytecode \in {LOAD_CONST, LOAD_LOCAL, REPLACE, JUMP_IF_FALSE,
                     JUMP_IF_FALSE_NO_POP, JUMP}
    THEN 1 ELSE 0

(***************************************************************************)
(* Option<T>.                                                              *)
(***************************************************************************)
None == <<>>
Some(x) == <<x>>
IsSome(o) == o # <<>>
Unwrap(o) == o[1]

(***************************************************************************)
(* i64, scaled to IntBits bits.                                            *)
(***************************************************************************)
I64Min == -(2 ^ (IntBits - 1))
I64Max == (2 ^ (IntBits - 1)) - 1
InI64(x) == I64Min <= x /\ x <= I64Max
\* two's-complement wrap of a mathematical integer into i64
Wrap64(x) == ((x - I64Min) % (2 ^ IntBits)) + I64Min
Abs(x) == IF x < 0 THEN -x ELSE x
\* Rust `/` and `%` on integers truncate toward zero
TruncDiv(a, b) ==
    IF (a >= 0) = (b > 0) THEN Abs(a) \div Abs(b) ELSE -(Abs(a) \div Abs(b))
TruncRem(a, b) == a - b * TruncDiv(a, b)

(***************************************************************************)
(* f64, modelled as an exact fraction n/d in lowest terms with d > 0.      *)
(* Rounding, infinities and NaN are outside the modelled range.            *)
(***************************************************************************)
RECURSIVE Gcd(_, _)
Gcd(a, b) == IF b = 0 THEN a ELSE Gcd(b, a % b)
Rat(n, d) ==
    LET s == IF d < 0 THEN -1 ELSE 1
        g == Gcd(Abs(n), Abs(d))
    IN  [n |-> (s * n) \div g, d |-> (s * d) \div g]
RatOfInt(i) == [n |-> i, d |-> 1]
RatAdd(x, y) == Rat(x.n * y.d + y.n * x.d, x.d * y.d)
RatSub(x, y) == Rat(x.n * y.d - y.n * x.d, x.d * y.d)
RatMul(x, y) == Rat(x.n * y.n, x.d * y.d)
RatDiv(x, y) == Rat(x.n * y.d, x.d * y.n)
\* f64 `%` is the truncated remainder (fmod)
RatRem(x, y) ==
    LET q == TruncDiv(x.n * y.d, x.d * y.n)
    IN  RatSub(x, RatMul(RatOfInt(q), y))
RatLt(x, y) == x.n * y.d < y.n * x.d
RatLe(x, y) == x.n * y.d <= y.n * x.d
RatIsZero(x) == x.n = 0

(***************************************************************************)
(* enum Value.  A String is its sequence of characters.                    *)
(***************************************************************************)
VFloat(f) == [t |-> "Float", f |-> f]
VInt(i) == [t |-> "Int", i |-> i]
VString(s) == [t |-> "String", s |-> s]
VBool(b) == [t |-> "Bool", b |-> b]
VNull == [t |-> "Null"]
VArray(a) == [t |-> "Array", a |-> a]

type_name(v) ==
    CASE v.t = "Float" -> "float"
      [] v.t = "Int" -> "int"
      [] v.t = "String" -> "string"
      [] v.t = "Bool" -> "bool"
      [] v.t = "Null" -> "null"
      [] v.t = "Array" -> "array"

is_truthy(v) ==
    CASE v.t = "Float" -> ~RatIsZero(v.f)
      [] v.t = "Int" -> v.i # 0
      [] v.t = "String" -> v.s # <<>>
      [] v.t = "Bool" -> v.b
      [] v.t = "Null" -> FALSE
      [] v.t = "Array" -> v.a # <<>>

(***************************************************************************)
(* Memory.  K is the constant pool (vm.constants), H the sequence of cells *)
(* handed out by alloc_new_value, in allocation order.  A memory M is the  *)
(* pair [K, H].                                                            *)
(***************************************************************************)
PoolPtr(idx) == -(idx + 1)
IsPoolPtr(p) == p < 0
Mem(K, H) == [K |-> K, H |-> H]
Deref(M, p) == IF p < 0 THEN M.K[-p] ELSE M.H[p]
Store(M, p, v) ==
    IF p < 0 THEN [M EXCEPT !.K[-p] = v] ELSE [M EXCEPT !.H[p] = v]
\* alloc_new_value: the new cell is the next pointer
alloc_new_value(M, val) == [M |-> [M EXCEPT !.H = Append(@, val)], p |-> Len(M.H) + 1]
\* a recursion on values deeper than the number of cells runs through a cycle
Fuel(M) == Len(M.K) + Len(M.H) + 1

(***************************************************************************)
(* Copies (value.rs 72-85).                                                *)
(***************************************************************************)
\* (*self).regular_copy_to(dest): *dest = self.clone()
regular_copy_to(M, self, dest) == Store(M, dest, Deref(M, self))

\* a faulty shallow_copy that gives an Array a new cell too
shallow_copy_fresh(M, self) == alloc_new_value(M, Deref(M, self))

\* (*self).shallow_copy(): the same handle for an Array, a new cell otherwise
shallow_copy(M, self) ==
    IF Deref(M, self).t = "Array"
    THEN [M |-> M, p |-> self]
    ELSE alloc_new_value(M, Deref(M, self))

(***************************************************************************)
(* is_equal (value.rs 117-141): "T", "F", or "X" when the recursion over   *)
(* array elements does not end (the process overflows its call stack).     *)
(***************************************************************************)
RECURSIVE is_equal_rec(_, _, _, _)
RECURSIVE is_equal_all(_, _, _, _)
is_equal_rec(M, v1, v2, fuel) ==
    CASE v1.t = "Float" /\ v2.t = "Float" -> IF v1.f = v2.f THEN "T" ELSE "F"
      [] v1.t = "Int" /\ v2.t = "Int" -> IF v1.i = v2.i THEN "T" ELSE "F"
      [] v1.t = "String" /\ v2.t = "String" -> IF v1.s = v2.s THEN "T" ELSE "F"
      [] v1.t = "Bool" /\ v2.t = "Bool" -> IF v1.b = v2.b THEN "T" ELSE "F"
      [] v1.t = "Null" /\ v2.t = "Null" -> "T"
      [] v1.t = "Array" /\ v2.t = "Array" ->
            IF Len(v1.a) # Len(v2.a) THEN "F"
            ELSE IF fuel = 0 THEN "X"
            ELSE is_equal_all(M, v1.a, v2.a, fuel - 1)
      [] OTHER -> "F"
is_equal_all(M, a1, a2, fuel) ==
    IF a1 = <<>> THEN "T"
    ELSE LET e == is_equal_rec(M, Deref(M, Head(a1)), Deref(M, Head(a2)), fuel)
         IN  IF e # "T" THEN e ELSE is_equal_all(M, Tail(a1), Tail(a2), fuel)
is_equal(M, v1, v2) == is_equal_rec(M, v1, v2, Fuel(M))

(***************************************************************************)
(* Formatting (value.rs 24-58), as sequences of characters.  A Float is    *)
(* written as its fraction; string escapes are not modelled.               *)
(***************************************************************************)
DigitChars == <<"0", "1", "2", "3", "4", "5", "6", "7", "8", "9">>
RECURSIVE NatChars(_)
NatChars(n) ==
    IF n < 10 THEN <<DigitChars[n + 1]>>
    ELSE Append(NatChars(n \div 10), DigitChars[(n % 10) + 1])
IntChars(i) == IF i < 0 THEN <<"-">> \o NatChars(-i) ELSE NatChars(i)
BoolChars(b) == IF b THEN <<"t", "r", "u", "e">> ELSE <<"f", "a", "l", "s", "e">>
NullChars == <<"n", "u", "l", "l">>
FloatChars(f) == IntChars(f.n) \o <<"/">> \o NatChars(f.d)

\* ok = FALSE when the recursion does not end
RECURSIVE debug_format_rec(_, _, _)
RECURSIVE debug_format_all(_, _, _, _)
debug_format_rec(M, v, fuel) ==
    CASE v.t = "Float" -> [ok |-> TRUE, s |-> FloatChars(v.f)]
      [] v.t = "Int" -> [ok |-> TRUE, s |-> IntChars(v.i)]
      [] v.t = "String" -> [ok |-> TRUE, s |-> <<"\"">> \o v.s \o <<"\"">>]
      [] v.t = "Bool" -> [ok |-> TRUE, s |-> BoolChars(v.b)]
      [] v.t = "Null" -> [ok |-> TRUE, s |-> NullChars]
      [] v.t = "Array" ->
            IF fuel = 0 THEN [ok |-> FALSE, s |-> <<>>]
            ELSE LET r == debug_format_all(M, v.a, <<>>, fuel - 1)
                 IN  [ok |-> r.ok, s |-> <<"[">> \o r.s \o <<"]">>]
debug_format_all(M, ps, acc, fuel) ==
    IF ps = <<>> THEN [ok |-> TRUE, s |-> acc]
    ELSE LET r == debug_format_rec(M, Deref(M, Head(ps)), fuel)
             sep == IF acc = <<>> THEN <<>> ELSE <<",", " ">>
         IN  IF ~r.ok THEN [ok |-> FALSE, s |-> acc]
             ELSE debug_format_all(M, Tail(ps), acc \o sep \o r.s, fuel)
debug_format(M, v) == debug_format_rec(M, v, Fuel(M))

print_format(M, v) ==
    IF v.t = "String" THEN [ok |-> TRUE, s |-> v.s] ELSE debug_format(M, v)

\* byte-wise order of the characters the model's strings are written in
Alphabet == <<" ", "\"", ",", "-", "/", "0", "1", "2", "3", "4", "5", "6", "7",
              "8", "9", "[", "]", "a", "b", "c", "d", "e", "f", "l", "n", "r",
              "s", "t", "u">>
CharCode(c) == CHOOSE i \in 1..Len(Alphabet) : Alphabet[i] = c
RECURSIVE StrLt(_, _)
StrLt(s1, s2) ==
    IF s2 = <<>> THEN FALSE
    ELSE IF s1 = <<>> THEN TRUE
    ELSE IF Head(s1) = Head(s2) THEN StrLt(Tail(s1), Tail(s2))
    ELSE CharCode(Head(s1)) < CharCode(Head(s2))
StrLe(s1, s2) == s1 = s2 \/ StrLt(s1, s2)

(***************************************************************************)
(* Binary operators (value.rs 143-435).  A BinOpResult is                  *)
(*   [kind |-> "Ok", M, p]   the result cell p in the memory M             *)
(*   [kind |-> "Error", msg] BinOpResult::Error                            *)
(*   [kind |-> "NoMatch"]    BinOpResult::NoMatch                          *)
(*   [kind |-> "Panic"]      the operation aborts the process              *)
(* Int + - * wrap as in a release build.                                   *)
(***************************************************************************)
BinOk(M, val) ==
    LET a == alloc_new_value(M, val) IN [kind |-> "Ok", M |-> a.M, p |-> a.p]
BinError(msg) == [kind |-> "Error", msg |-> msg]
BinNoMatch == [kind |-> "NoMatch"]
BinPanic == [kind |-> "Panic"]
IsNum(v) == v.t \in {"Int", "Float"}
\* `i as f64`
AsF64(v) == IF v.t = "Int" THEN RatOfInt(v.i) ELSE v.f

binary_add(M, l, r) ==
    CASE l.t = "Int" /\ r.t = "Int" -> BinOk(M, VInt(Wrap64(l.i + r.i)))
      [] IsNum(l) /\ IsNum(r) /\ ~(l.t = "Int" /\ r.t = "Int") ->
            BinOk(M, VFloat(RatAdd(AsF64(l), AsF64(r))))
      [] l.t = "String" /\ r.t = "String" -> BinOk(M, VString(l.s \o r.s))
      [] l.t = "Array" /\ r.t = "Array" -> BinOk(M, VArray(l.a \o r.a))
      [] OTHER -> BinNoMatch

binary_sub(M, l, r) ==
    CASE l.t = "Int" /\ r.t = "Int" -> BinOk(M, VInt(Wrap64(l.i - r.i)))
      [] IsNum(l) /\ IsNum(r) /\ ~(l.t = "Int" /\ r.t = "Int") ->
            BinOk(M, VFloat(RatSub(AsF64(l), AsF64(r))))
      [] OTHER -> BinNoMatch

\* the inner loop of the shallow repetition: one pass over the elements
RECURSIVE shallow_copy_all(_, _, _)
shallow_copy_all(M, ps, acc) ==
    IF ps = <<>> THEN [M |-> M, ps |-> acc]
    ELSE LET c == shallow_copy(M, Head(ps))
         IN  shallow_copy_all(c.M, Tail(ps), Append(acc, c.p))
RECURSIVE shallow_repeat(_, _, _, _)
shallow_repeat(M, ps, n, acc) ==
    IF n <= 0 THEN [M |-> M, ps |-> acc]
    ELSE LET r == shallow_copy_all(M, ps, acc)
         IN  shallow_repeat(r.M, ps, n - 1, r.ps)

\* ss.join(s) over the print_format of the elements
RECURSIVE join_formats(_, _, _, _)
join_formats(M, ps, sep, acc) ==
    IF ps = <<>> THEN [ok |-> TRUE, s |-> acc.s]
    ELSE LET f == print_format(M, Deref(M, Head(ps)))
         IN  IF ~f.ok THEN [ok |-> FALSE, s |-> <<>>]
             ELSE join_formats(M, Tail(ps), sep,
                    [first |-> FALSE,
                     s |-> IF acc.first THEN f.s ELSE acc.s \o sep \o f.s])

binary_mul(M, l, r) ==
    CASE l.t = "Int" /\ r.t = "Int" -> BinOk(M, VInt(Wrap64(l.i * r.i)))
      [] IsNum(l) /\ IsNum(r) /\ ~(l.t = "Int" /\ r.t = "Int") ->
            BinOk(M, VFloat(RatMul(AsF64(l), AsF64(r))))
      [] l.t = "Array" /\ r.t = "Int" ->
            IF r.i < 0
            THEN BinError("Array shallow repetition multiplier must be nonnegative")
            ELSE LET rep == shallow_repeat(M, l.a, r.i, <<>>)
                 IN  BinOk(rep.M, VArray(rep.ps))
      [] l.t = "Array" /\ r.t = "String" ->
            LET j == join_formats(M, l.a, r.s, [first |-> TRUE, s |-> <<>>])
            IN  IF j.ok THEN BinOk(M, VString(j.s)) ELSE BinPanic
      [] OTHER -> BinNoMatch

\* the zero test of the four numeric arms of binary_div and binary_mod; the
\* message of the error is written without the operands that follow it
\* ("Division By Zero: 10 / 0")
DivisorIsZero(r) == IF r.t = "Int" THEN r.i = 0 ELSE RatIsZero(r.f)

\* a faulty binary_div that does not test its divisor: a zero divisor yields
\* the dividend
binary_div_unchecked(M, l, r) ==
    IF IsNum(l) /\ IsNum(r)
    THEN IF DivisorIsZero(r) THEN BinOk(M, l)
         ELSE IF l.t = "Int" /\ r.t = "Int"
         THEN IF l.i = I64Min /\ r.i = -1 THEN BinPanic
              ELSE BinOk(M, VInt(TruncDiv(l.i, r.i)))
         ELSE BinOk(M, VFloat(RatDiv(AsF64(l), AsF64(r))))
    ELSE BinNoMatch

binary_div(M, l, r) ==
    CASE l.t = "Int" /\ r.t = "Int" ->
            IF DivisorIsZero(r) THEN BinError("Division By Zero")
            ELSE IF l.i = I64Min /\ r.i = -1 THEN BinPanic
            ELSE BinOk(M, VInt(TruncDiv(l.i, r.i)))
      [] IsNum(l) /\ IsNum(r) /\ ~(l.t = "Int" /\ r.t = "Int") ->
            IF DivisorIsZero(r) THEN BinError("Division By Zero")
            ELSE BinOk(M, VFloat(RatDiv(AsF64(l), AsF64(r))))
      [] OTHER -> BinNoMatch

binary_mod(M, l, r) ==
    CASE l.t = "Int" /\ r.t = "Int" ->
            IF DivisorIsZero(r) THEN BinError("Modulo By Zero")
            ELSE IF l.i = I64Min /\ r.i = -1 THEN BinPanic
            ELSE LET m1 == Wrap64(TruncRem(l.i, r.i) + r.i)
                 IN  IF m1 = I64Min /\ r.i = -1 THEN BinPanic
                     ELSE BinOk(M, VInt(TruncRem(m1, r.i)))
      [] IsNum(l) /\ IsNum(r) /\ ~(l.t = "Int" /\ r.t = "Int") ->
            IF DivisorIsZero(r) THEN BinError("Modulo By Zero")
            ELSE BinOk(M, VFloat(RatRem(RatAdd(RatRem(AsF64(l), AsF64(r)), AsF64(r)),
                                        AsF64(r))))
      [] OTHER -> BinNoMatch

binary_lt(M, l, r) ==
    CASE IsNum(l) /\ IsNum(r) -> BinOk(M, VBool(RatLt(AsF64(l), AsF64(r))))
      [] l.t = "String" /\ r.t = "String" -> BinOk(M, VBool(StrLt(l.s, r.s)))
      [] OTHER -> BinNoMatch

binary_gt(M, l, r) ==
    CASE IsNum(l) /\ IsNum(r) -> BinOk(M, VBool(RatLt(AsF64(r), AsF64(l))))
      [] l.t = "String" /\ r.t = "String" -> BinOk(M, VBool(StrLt(r.s, l.s)))
      [] OTHER -> BinNoMatch

binary_le(M, l, r) ==
    CASE IsNum(l) /\ IsNum(r) -> BinOk(M, VBool(RatLe(AsF64(l), AsF64(r))))
      [] l.t = "String" /\ r.t = "String" -> BinOk(M, VBool(StrLe(l.s, r.s)))
      [] OTHER -> BinNoMatch

binary_ge(M, l, r) ==
    CASE IsNum(l) /\ IsNum(r) -> BinOk(M, VBool(RatLe(AsF64(r), AsF64(l))))
      [] l.t = "String" /\ r.t = "String" -> BinOk(M, VBool(StrLe(r.s, l.s)))
      [] OTHER -> BinNoMatch

(***************************************************************************)
(* get_element (value.rs 437-475): [ok |-> TRUE, M, p] or [ok |-> FALSE,   *)
(* msg].  self is the collection's value, index a handle.                  *)
(***************************************************************************)
\* a faulty get_element that hands out the last element of an Array for an
\* index past its end
get_element_clamped(M, self, index) ==
    LET ix == Deref(M, index) IN
    CASE self.t = "Array" ->
            IF ix.t = "Int"
            THEN IF ix.i < 0
                 THEN [ok |-> FALSE, msg |-> "Negative index not supported"]
                 ELSE IF ix.i < Len(self.a)
                 THEN [ok |-> TRUE, M |-> M, p |-> self.a[ix.i + 1]]
                 ELSE IF self.a # <<>>
                 THEN [ok |-> TRUE, M |-> M, p |-> self.a[Len(self.a)]]
                 ELSE [ok |-> FALSE, msg |-> "Index out of range"]
            ELSE [ok |-> FALSE, msg |-> "Array index must be an integer"]
      [] self.t = "String" ->
            IF ix.t = "Int"
            THEN IF ix.i < 0
                 THEN [ok |-> FALSE, msg |-> "Negative index not supported"]
                 ELSE IF ix.i < Len(self.s)
                 THEN LET a == alloc_new_value(M, VString(<<self.s[ix.i + 1]>>))
                      IN  [ok |-> TRUE, M |-> a.M, p |-> a.p]
                 ELSE [ok |-> FALSE, msg |-> "Index out of range"]
            ELSE [ok |-> FALSE, msg |-> "String index must be an integer"]
      [] OTHER -> [ok |-> FALSE, msg |-> "Cannot get element from type"]

get_element(M, self, index) ==
    LET ix == Deref(M, index) IN
    CASE self.t = "Array" ->
            IF ix.t = "Int"
            THEN IF ix.i < 0
                 THEN [ok |-> FALSE, msg |-> "Negative index not supported"]
                 ELSE IF ix.i < Len(self.a)
                 THEN [ok |-> TRUE, M |-> M, p |-> self.a[ix.i + 1]]
                 ELSE [ok |-> FALSE, msg |-> "Index out of range"]
            ELSE [ok |-> FALSE, msg |-> "Array index must be an integer"]
      [] self.t = "String" ->
            IF ix.t = "Int"
            THEN IF ix.i < 0
                 THEN [ok |-> FALSE, msg |-> "Negative index not supported"]
                 ELSE IF ix.i < Len(self.s)
                 THEN LET a == alloc_new_value(M, VString(<<self.s[ix.i + 1]>>))
                      IN  [ok |-> TRUE, M |-> a.M, p |-> a.p]
                 ELSE [ok |-> FALSE, msg |-> "Index out of range"]
            ELSE [ok |-> FALSE, msg |-> "String index must be an integer"]
      [] OTHER -> [ok |-> FALSE, msg |-> "Cannot get element from type"]

(***************************************************************************)
(* The abstract syntax tree (parser/ast.rs, as vm_bc.rs consumes it).      *)
(* A node is a record with its variant in k.  An Int literal carries its   *)
(* decimal digits, a Float literal the digits before and after the point.  *)
(* The parser's AstSpan of a node is not stored in the node: the compiler  *)
(* is handed the node's path in the tree and uses it as the span, so two   *)
(* nodes have the same span only where the parser gives them the same      *)
(* text (an ExprStmt and its expression); the span of an Infix node is its *)
(* operator token, path \o <<0>>.                                          *)
(***************************************************************************)
EString(chars) == [k |-> "String_", value |-> chars]
EInt(digits) == [k |-> "Int", value |-> digits]
EFloat(whole, frac) == [k |-> "Float", whole |-> whole, frac |-> frac]
EBool(b) == [k |-> "Bool", value |-> b]
EArray(values) == [k |-> "Array", values |-> values]
EGetVar(name) == [k |-> "GetVar", name |-> name]
ESetVar(name, value) == [k |-> "SetVar", name |-> name, value |-> value]
EInfix(left, operator, right) ==
    [k |-> "Infix", left |-> left, operator |-> operator, right |-> right]
EPrefix(operator, right) == [k |-> "Prefix", operator |-> operator, right |-> right]
EIndex(callee, index) == [k |-> "Index", callee |-> callee, index |-> index]
EIf(cond, body, other) == [k |-> "If", cond |-> cond, body |-> body, other |-> other]
EWhile(cond, body) == [k |-> "While", cond |-> cond, body |-> body]
EDo(body) == [k |-> "Do", body |-> body]
SExprStmt(expr) == [k |-> "ExprStmt", expr |-> expr]
SDebugPrint(expr) == [k |-> "DebugPrint", expr |-> expr]
SBreak == [k |-> "Break"]
SNext == [k |-> "Next"]
SPointerAssign(ptr, value) == [k |-> "PointerAssign", ptr |-> ptr, value |-> value]

\* str::parse::<i64> of a digit string: None when the value does not fit
RECURSIVE DigitsValue(_, _)
DigitsValue(digits, acc) ==
    IF digits = <<>> THEN acc
    ELSE IF acc > I64Max THEN acc
    ELSE DigitsValue(Tail(digits), acc * 10 + Head(digits))
ParseI64(digits) ==
    LET v == DigitsValue(digits, 0) IN IF v > I64Max THEN None ELSE Some(v)
\* str::parse::<f64> of "whole.frac"
RECURSIVE Pow10(_)
Pow10(n) == IF n = 0 THEN 1 ELSE 10 * Pow10(n - 1)
ParseF64(whole, frac) ==
    Some(Rat(DigitsValue(whole, 0) * Pow10(Len(frac)) + DigitsValue(frac, 0),
             Pow10(Len(frac))))

(***************************************************************************)
(* struct VM and struct Compiler (vm_bc.rs 22-87).  The source text, used  *)
(* only to lay out an error message, is not part of the model: an error is *)
(* the record [stage, message, span].                                      *)
(***************************************************************************)
EmptyMap == [n \in {} |-> 0]
MapPut(m, key, val) == [x \in DOMAIN m \cup {key} |-> IF x = key THEN val ELSE m[x]]

VMDefault ==
    [ bytecodes |-> <<>>,
      lines |-> <<>>,
      pc |-> 0,
      constants |-> <<VBool(FALSE), VBool(TRUE), VNull>>,
      constant_hash_int |-> EmptyMap,
      break_jump_patches |-> <<>>,
      next_jump_patches |-> <<>>,
      current_compiler |-> [local_map |-> <<EmptyMap>>, scope_depth |-> 0, count |-> 0],
      stack |-> <<>>,
      last_popped |-> None,
      repl_mode |-> FALSE,
      error |-> None ]

compile_error(vm, span, message) ==
    [vm EXCEPT !.error =
        Some([stage |-> "Compile-time", message |-> message, span |-> span])]

push_bytecode(vm, bytecode, span) ==
    [vm EXCEPT !.bytecodes = Append(@, bytecode), !.lines = Append(@, span)]

\* self.bytecodes.pop(); self.lines.pop()
pop_bytecode(vm) ==
    [vm EXCEPT !.bytecodes = SubSeq(@, 1, Len(@) - 1),
               !.lines = SubSeq(@, 1, Len(@) - 1)]

\* self.bytecodes[loc] = value
patch(vm, loc, value) == [vm EXCEPT !.bytecodes[loc + 1] = value]

begin_scope(vm) ==
    [vm EXCEPT !.current_compiler.scope_depth = @ + 1,
               !.current_compiler.local_map = Append(@, EmptyMap)]

end_scope(vm) ==
    LET lm == vm.current_compiler.local_map IN
    [vm EXCEPT !.current_compiler.scope_depth = @ - 1,
               !.current_compiler.count = @ - Cardinality(DOMAIN lm[Len(lm)]),
               !.current_compiler.local_map = SubSeq(lm, 1, Len(lm) - 1)]

\* the loop `for i in (0..=scope_depth).rev()` of add_local and resolve_local,
\* from scope i down
RECURSIVE find_local(_, _, _)
find_local(local_map, name, i) ==
    IF i < 0 THEN None
    ELSE IF name \in DOMAIN local_map[i + 1] THEN Some(local_map[i + 1][name])
    ELSE find_local(local_map, name, i - 1)

\* [vm, index, panic]: panic when local_map[scope_depth] does not exist
add_local(vm, name) ==
    LET cc == vm.current_compiler IN
    IF cc.scope_depth >= Len(cc.local_map)
    THEN [vm |-> vm, index |-> 0, panic |-> TRUE]
    ELSE LET f == find_local(cc.local_map, name, cc.scope_depth) IN
         IF IsSome(f) THEN [vm |-> vm, index |-> Unwrap(f), panic |-> FALSE]
         ELSE [vm |-> [vm EXCEPT
                        !.current_compiler.local_map[cc.scope_depth + 1] =
                            MapPut(@, name, cc.count),
                        !.current_compiler.count = @ + 1],
               index |-> cc.count, panic |-> FALSE]

\* [res, panic]
resolve_local(vm, name) ==
    LET cc == vm.current_compiler IN
    IF cc.scope_depth >= Len(cc.local_map)
    THEN [res |-> None, panic |-> TRUE]
    ELSE [res |-> find_local(cc.local_map, name, cc.scope_depth), panic |-> FALSE]

(***************************************************************************)
(* Compilation (vm_bc.rs 187-622).  A compile step returns [vm, ok, panic]: *)
(* ok is the bool the Rust function returns, panic says the process        *)
(* aborted (an index out of bounds).                                       *)
(***************************************************************************)
COk(vm) == [vm |-> vm, ok |-> TRUE, panic |-> FALSE]
CFail(vm) == [vm |-> vm, ok |-> FALSE, panic |-> FALSE]
CPanic(vm) == [vm |-> vm, ok |-> FALSE, panic |-> TRUE]

\* the opcode of a non-short-circuit infix operator (vm_bc.rs 413-456)
InfixOpcode(operator) ==
    CASE operator = "+" -> Some(BINARY_ADD)
      [] operator = "-" -> Some(BINARY_SUB)
      [] operator = "*" -> Some(BINARY_MUL)
      [] operator = "/" -> Some(BINARY_DIV)
      [] operator = "%" -> Some(BINARY_MOD)
      [] operator = "==" -> Some(BINARY_EQ)
      [] operator = "!=" -> Some(BINARY_NE)
      [] operator = "<" -> Some(BINARY_LT)
      [] operator = "<=" -> Some(BINARY_LE)
      [] operator = ">" -> Some(BINARY_GT)
      [] operator = ">=" -> Some(BINARY_GE)
      [] OTHER -> None

\* two code units with one span
push2(vm, first, second, span) ==
    push_bytecode(push_bytecode(vm, first, span), second, span)

\* LOAD_CONST NULL_CONSTANT
push_null(vm, span) == push2(vm, LOAD_CONST, AsByte(NULL_CONSTANT), span)

\* a jump with the placeholder 0 for its address; the placeholder is the last
\* unit pushed
emit_jump(vm, opcode, span) == push2(vm, opcode, 0, span)

\* self.bytecodes[loc] = self.bytecodes.len() as Byte
patch_here(vm, loc) == patch(vm, loc, AsByte(Len(vm.bytecodes)))

\* "If there is a result, don't pop it": strip a trailing POP_LAST unit, or
\* push null
strip_or_null(vm, span) ==
    IF vm.bytecodes # <<>> /\ vm.bytecodes[Len(vm.bytecodes)] = POP_LAST
    THEN pop_bytecode(vm)
    ELSE push_null(vm, span)

\* self.bytecodes[i] = value for every i of a patch list
RECURSIVE patch_all(_, _, _)
patch_all(vm, list, value) ==
    IF list = <<>> THEN vm
    ELSE patch_all(patch(vm, Head(list), value), Tail(list), value)

\* a backfill of the breaks that skips the LOAD_CONST NULL_CONSTANT pushed after
\* the loop
patch_breaks_past(vm) ==
    patch_all([vm EXCEPT !.break_jump_patches = SubSeq(@, 1, Len(@) - 1)],
              vm.break_jump_patches[Len(vm.break_jump_patches)],
              AsByte(Len(vm.bytecodes) + 2))
\* a backfill of the nexts with the start of the outermost loop
patch_nexts_outer(vm, loop_start) ==
    patch_all([vm EXCEPT !.next_jump_patches = SubSeq(@, 1, Len(@) - 1)],
              vm.next_jump_patches[Len(vm.next_jump_patches)],
              0)

\* `let list = self.break_jump_patches.pop().unwrap(); for i in list { .. }`
patch_breaks(vm) ==
    patch_all([vm EXCEPT !.break_jump_patches = SubSeq(@, 1, Len(@) - 1)],
              vm.break_jump_patches[Len(vm.break_jump_patches)],
              AsByte(Len(vm.bytecodes)))
patch_nexts(vm, loop_start) ==
    patch_all([vm EXCEPT !.next_jump_patches = SubSeq(@, 1, Len(@) - 1)],
              vm.next_jump_patches[Len(vm.next_jump_patches)],
              AsByte(loop_start))

\* after a step r that may have failed: push one unit, patch a jump to here
Pushed(r, bytecode, span) ==
    IF ~r.ok THEN r ELSE COk(push_bytecode(r.vm, bytecode, span))
Patched(r, loc) == IF ~r.ok THEN r ELSE COk(patch_here(r.vm, loc))

\* constants.try_push(val), then LOAD_CONST with `constants.len() as Byte - 1`
push_constant(vm, val, span) ==
    IF Len(vm.constants) >= CONSTANT_SIZE
    THEN CFail(compile_error(vm, span, "Constant exceeds limit of 1024"))
    ELSE COk(push2([vm EXCEPT !.constants = Append(@, val)], LOAD_CONST,
                   AsByte(Len(vm.constants) + 1) - 1, span))

\* Expression::Int with the literal's value (vm_bc.rs 283-297)
push_int(vm, val, span) ==
    IF val \in DOMAIN vm.constant_hash_int
    THEN COk(push2(vm, LOAD_CONST, vm.constant_hash_int[val], span))
    ELSE push_constant(
            [vm EXCEPT !.constant_hash_int =
                IF Len(vm.constants) >= CONSTANT_SIZE THEN @
                ELSE MapPut(@, val, AsByte(Len(vm.constants) + 1) - 1)],
            VInt(val), span)

\* Statement::Break and Statement::Next after the JUMP was pushed
break_rest(vm, span) ==
    IF vm.break_jump_patches # <<>>
    THEN COk(push_bytecode(
            [vm EXCEPT !.break_jump_patches[Len(vm.break_jump_patches)] =
                Append(@, Len(vm.bytecodes))], 0, span))
    ELSE CFail(compile_error(vm, span, "Break statement outside of loop is not allowed"))
next_rest(vm, span) ==
    IF vm.next_jump_patches # <<>>
    THEN COk(push_bytecode(
            [vm EXCEPT !.next_jump_patches[Len(vm.next_jump_patches)] =
                Append(@, Len(vm.bytecodes))], 0, span))
    ELSE CFail(compile_error(vm, span, "Next statement outside of loop is not allowed"))

\* the end of a block that yields a value: end_scope, then strip or push null
block_close(r, span) ==
    IF ~r.ok THEN r ELSE COk(strip_or_null(end_scope(r.vm), span))

\* Expression::SetVar after the value was compiled (vm_bc.rs 359-362)
set_store(r, index, span) ==
    IF ~r.ok THEN r
    ELSE COk(push2(push2(r.vm, REPLACE, index, span), LOAD_LOCAL, index, span))

\* the operator of an Infix after both operands were compiled (vm_bc.rs 413-456)
infix_operator(r, operator, span) ==
    IF ~r.ok THEN r
    ELSE IF IsSome(InfixOpcode(operator))
    THEN COk(push_bytecode(r.vm, Unwrap(InfixOpcode(operator)), span))
    ELSE CFail(compile_error(r.vm, span, "Unsupported Operand: " \o operator))

\* Expression::While after the body was compiled (vm_bc.rs 584-602)
while_close(r, span, loop_start, patch_loc) ==
    IF ~r.ok THEN r
    ELSE COk(push_null(
            patch_nexts(
                patch_breaks(
                    patch_here(push2(end_scope(r.vm), JUMP, AsByte(loop_start), span),
                               patch_loc)),
                loop_start),
            span))

RECURSIVE compile_expression(_, _, _)
RECURSIVE compile_statement(_, _, _)
RECURSIVE compile_program_from(_, _, _, _)
RECURSIVE compile_array_values(_, _, _, _)

\* compile_program: the statements of `program` from the i-th on, r the result
\* of the statement before
program_rest(r, program, path, i) ==
    IF ~r.ok THEN r ELSE compile_program_from(r.vm, program, path, i)
compile_program_from(vm, program, path, i) ==
    IF i > Len(program) THEN COk(vm)
    ELSE program_rest(compile_statement(vm, program[i], Append(path, i)),
                      program, path, i + 1)

compile_program(vm, program, path) == compile_program_from(vm, program, path, 1)

\* `for x in a.values.iter().rev() { self.compile_expression(x); }`: the
\* result of compiling an element is not looked at
array_rest(r, values, path, i) ==
    IF r.panic THEN r ELSE compile_array_values(r.vm, values, path, i)
compile_array_values(vm, values, path, i) ==
    IF i < 1 THEN COk(vm)
    ELSE array_rest(compile_expression(vm, values[i], Append(path, i)),
                    values, path, i - 1)
array_make(r, length, span) ==
    IF r.panic THEN r ELSE COk(push2(r.vm, MAKE_ARRAY, AsByte(length), span))

\* Statement::PointerAssign after ptr was compiled
pointer_value(r, statement, path) ==
    IF ~r.ok THEN r
    ELSE Pushed(compile_expression(r.vm, statement.value, Append(path, 3)),
                SET_IN_PLACE, path)

compile_statement(vm, statement, path) ==
    CASE statement.k = "ExprStmt" ->
            Pushed(compile_expression(vm, statement.expr, path), POP_LAST, path)
      [] statement.k = "DebugPrint" ->
            Pushed(compile_expression(vm, statement.expr, path), DEBUG_PRINT, path)
      [] statement.k = "Break" -> break_rest(push_bytecode(vm, JUMP, path), path)
      [] statement.k = "Next" -> next_rest(push_bytecode(vm, JUMP, path), path)
      [] statement.k = "PointerAssign" ->
            pointer_value(compile_expression(vm, statement.ptr, path), statement, path)

\* the body of an If branch: begin_scope, compile_program, end_scope, then
\* strip the POP_LAST or push null (vm_bc.rs 506-525, 541-560)
compile_branch(vm, body, span, path) ==
    IF body # <<>>
    THEN block_close(compile_program(begin_scope(vm), body, path), span)
    ELSE COk(push_null(vm, span))

\* Expression::SetVar after add_local
set_value(replace, expression, path) ==
    IF replace.panic THEN CPanic(replace.vm)
    ELSE set_store(compile_expression(replace.vm, expression.value, Append(path, 1)),
                   AsByte(replace.index), path)

\* `&&` after the left operand r was compiled (vm_bc.rs 372-382)
and_right(r, expression, path) ==
    IF ~r.ok THEN r
    ELSE Patched(compile_expression(
                    push_bytecode(emit_jump(r.vm, JUMP_IF_FALSE_NO_POP, Append(path, 0)),
                                  POP_LAST, Append(path, 0)),
                    expression.right, Append(path, 2)),
                 Len(r.vm.bytecodes) + 1)

\* `||` after the left operand r was compiled (vm_bc.rs 389-404)
or_right(r, expression, path) ==
    IF ~r.ok THEN r
    ELSE Patched(compile_expression(
                    push_bytecode(
                        patch_here(emit_jump(emit_jump(r.vm, JUMP_IF_FALSE_NO_POP,
                                                       Append(path, 0)),
                                             JUMP, Append(path, 0)),
                                   Len(r.vm.bytecodes) + 1),
                        POP_LAST, Append(path, 0)),
                    expression.right, Append(path, 2)),
                 Len(r.vm.bytecodes) + 3)

\* any other infix after the left operand r was compiled (vm_bc.rs 410-456)
infix_right(r, expression, path) ==
    IF ~r.ok THEN r
    ELSE infix_operator(compile_expression(r.vm, expression.right, Append(path, 2)),
                        expression.operator, Append(path, 0))

\* Expression::Index after the callee r was compiled
index_index(r, expression, path) ==
    IF ~r.ok THEN r
    ELSE Pushed(compile_expression(r.vm, expression.index, Append(path, 2)), GET, path)

\* Expression::If after the then-branch r was compiled (vm_bc.rs 527-563)
if_other(r, expression, path, patch_loc) ==
    IF ~r.ok THEN r
    ELSE Patched(compile_branch(patch_here(emit_jump(r.vm, JUMP, path), patch_loc),
                                expression.other, path, Append(path, 3)),
                 Len(r.vm.bytecodes) + 1)

\* Expression::If after the condition r was compiled (vm_bc.rs 501-525)
if_body(r, expression, path) ==
    IF ~r.ok THEN r
    ELSE if_other(compile_branch(emit_jump(r.vm, JUMP_IF_FALSE, path),
                                 expression.body, path, Append(path, 2)),
                  expression, path, Len(r.vm.bytecodes) + 1)

\* Expression::While after the condition r was compiled (vm_bc.rs 576-583)
while_body(r, expression, path, loop_start) ==
    IF ~r.ok THEN r
    ELSE while_close(compile_program(begin_scope(emit_jump(r.vm, JUMP_IF_FALSE, path)),
                                     expression.body, Append(path, 2)),
                     path, loop_start, Len(r.vm.bytecodes) + 1)

compile_expression(vm, expression, path) ==
    CASE expression.k = "String_" ->
            push_constant(vm, VString(expression.value), path)
      [] expression.k = "Int" ->
            IF IsSome(ParseI64(expression.value))
            THEN push_int(vm, Unwrap(ParseI64(expression.value)), path)
            ELSE CFail(compile_error(vm, path, "Integer literal too large"))
      [] expression.k = "Float" ->
            IF IsSome(ParseF64(expression.whole, expression.frac))
            THEN push_constant(vm,
                    VFloat(Unwrap(ParseF64(expression.whole, expression.frac))), path)
            ELSE CFail(compile_error(vm, path, "Integer literal too large"))
      [] expression.k = "Bool" ->
            COk(push2(vm, LOAD_CONST,
                      AsByte(IF expression.value THEN BOOL_TRUE_CONSTANT
                             ELSE BOOL_FALSE_CONSTANT), path))
      [] expression.k = "Array" ->
            array_make(compile_array_values(vm, expression.values, path,
                                            Len(expression.values)),
                       Len(expression.values), path)
      [] expression.k = "GetVar" ->
            IF resolve_local(vm, expression.name).panic THEN CPanic(vm)
            ELSE IF IsSome(resolve_local(vm, expression.name).res)
            THEN COk(push2(vm, LOAD_LOCAL,
                           AsByte(Unwrap(resolve_local(vm, expression.name).res)), path))
            ELSE CFail(compile_error(vm, path,
                    "Variable '" \o expression.name \o "' is not defined"))
      [] expression.k = "SetVar" ->
            set_value(add_local(vm, expression.name), expression, path)
      [] expression.k = "Infix" /\ expression.operator = "&&" ->
            and_right(compile_expression(vm, expression.left, Append(path, 1)),
                      expression, path)
      [] expression.k = "Infix" /\ expression.operator = "||" ->
            or_right(compile_expression(vm, expression.left, Append(path, 1)),
                     expression, path)
      [] expression.k = "Infix" /\ expression.operator \notin {"&&", "||"} ->
            infix_right(compile_expression(vm, expression.left, Append(path, 1)),
                        expression, path)
      [] expression.k = "Prefix" ->
            IF expression.operator \in {"-", "!"}
            THEN Pushed(compile_expression(vm, expression.right, Append(path, 1)),
                        IF expression.operator = "-" THEN UNARY_NEG ELSE UNARY_NOT, path)
            ELSE CFail(compile_error(vm, path,
                    "Unsupported Operand: " \o expression.operator))
      [] expression.k = "Index" ->
            index_index(compile_expression(vm, expression.callee, Append(path, 1)),
                        expression, path)
      [] expression.k = "If" ->
            if_body(compile_expression(vm, expression.cond, Append(path, 1)),
                    expression, path)
      [] expression.k = "While" ->
            while_body(compile_expression(
                          [vm EXCEPT !.break_jump_patches = Append(@, <<>>),
                                     !.next_jump_patches = Append(@, <<>>)],
                          expression.cond, Append(path, 1)),
                       expression, path, Len(vm.bytecodes))
      [] expression.k = "Do" ->
            block_close(compile_program(begin_scope(vm), expression.body,
                                        Append(path, 1)), path)

\* compile (vm_bc.rs 187-195)
compile(vm, program) ==
    LET cc == vm.current_compiler
        v1 == [vm EXCEPT !.lines = <<>>, !.bytecodes = <<>>,
                         !.current_compiler.local_map = SubSeq(cc.local_map, 1, 1),
                         !.current_compiler.count = Cardinality(DOMAIN cc.local_map[1])]
    IN  compile_program(v1, program, <<>>)

\* optimize (vm_bc.rs 624-643): the walk from unit i on
RECURSIVE optimize_from(_, _)
optimize_from(bytecodes, i) ==
    IF i >= Len(bytecodes) THEN bytecodes
    ELSE LET b == bytecodes[i + 1] IN
         IF /\ b \in {LOAD_LOCAL, LOAD_CONST}
            /\ i + 2 < Len(bytecodes) - 1
            /\ bytecodes[i + 3] = POP_LAST
         THEN optimize_from(
                [j \in 1..Len(bytecodes) |->
                    IF j - 1 \in i..(i + 2) THEN NOOP ELSE bytecodes[j]],
                i + 3)
         ELSE optimize_from(bytecodes, i + 1 + operands(b))

optimize(vm) == [vm EXCEPT !.bytecodes = optimize_from(vm.bytecodes, 0)]

(***************************************************************************)
(* Execution (vm_bc.rs 692-1030).  One pass of the loop of execute reads   *)
(* one opcode with its operands and acts on it.  The outcome is            *)
(*   [vm, heap, out, kind]                                                 *)
(* where out is the line printed (None when nothing is) and kind is        *)
(*   "Run"    the loop goes on                                             *)
(*   "Halt"   runtime_error was called and execute returned                *)
(*   "Panic"  the process aborted: unwrap of None, index out of bounds,    *)
(*            a recursion that does not end                                *)
(***************************************************************************)
XRun(vm, M) ==
    [vm |-> [vm EXCEPT !.constants = M.K], heap |-> M.H, out |-> None, kind |-> "Run"]
XPanic(vm, M) ==
    [vm |-> [vm EXCEPT !.constants = M.K], heap |-> M.H, out |-> None, kind |-> "Panic"]

\* runtime_error (vm_bc.rs 130-143): the span is lines[self.pc]
runtime_error(vm, message) ==
    [vm EXCEPT !.error =
        Some([stage |-> "Runtime", message |-> message, span |-> vm.lines[vm.pc + 1]])]

\* `self.runtime_error(..); return;`
XError(vm, M, message) ==
    IF vm.pc >= Len(vm.lines) THEN XPanic(vm, M)
    ELSE [vm |-> runtime_error([vm EXCEPT !.constants = M.K], message),
          heap |-> M.H, out |-> None, kind |-> "Halt"]

\* the stack without its n topmost entries, and its i-th entry from the top
Popped(stack, n) == SubSeq(stack, 1, Len(stack) - n)
Top(stack, i) == stack[Len(stack) - i + 1]

\* self.stack.push(p) after n pops
PushAfter(vm, M, n, p) ==
    IF Len(vm.stack) - n >= STACK_SIZE THEN XPanic(vm, M)
    ELSE XRun([vm EXCEPT !.stack = Append(Popped(vm.stack, n), p)], M)

\* the Value method an arithmetic or ordering opcode calls
apply_binary(bc, M, left, right) ==
    CASE bc = BINARY_ADD -> binary_add(M, left, right)
      [] bc = BINARY_SUB -> binary_sub(M, left, right)
      [] bc = BINARY_MUL -> binary_mul(M, left, right)
      [] bc = BINARY_DIV -> binary_div(M, left, right)
      [] bc = BINARY_MOD -> binary_mod(M, left, right)
      [] bc = BINARY_LT -> binary_lt(M, left, right)
      [] bc = BINARY_LE -> binary_le(M, left, right)
      [] bc = BINARY_GT -> binary_gt(M, left, right)
      [] bc = BINARY_GE -> binary_ge(M, left, right)

\* the match on the BinOpResult res, both operands popped
binary_outcome(vm, M, left, right, res, symbol) ==
    CASE res.kind = "Ok" -> PushAfter(vm, res.M, 2, res.p)
      [] res.kind = "Error" ->
            XError([vm EXCEPT !.stack = Popped(vm.stack, 2)], M, res.msg)
      [] res.kind = "NoMatch" ->
            XError([vm EXCEPT !.stack = Popped(vm.stack, 2)], M,
                   "Unsupported Binary operation: " \o type_name(left)
                        \o " " \o symbol \o " " \o type_name(right))
      [] res.kind = "Panic" -> XPanic([vm EXCEPT !.stack = Popped(vm.stack, 2)], M)

\* the arms BINARY_ADD .. BINARY_MOD and BINARY_LT .. BINARY_GE
exec_binary(vm, M, bc, symbol) ==
    IF Len(vm.stack) < 2 THEN XPanic(vm, M)
    ELSE binary_outcome(vm, M, Deref(M, Top(vm.stack, 2)), Deref(M, Top(vm.stack, 1)),
                        apply_binary(bc, M, Deref(M, Top(vm.stack, 2)),
                                     Deref(M, Top(vm.stack, 1))),
                        symbol)

\* the arms BINARY_EQ and BINARY_NE
exec_equality(vm, M, negate) ==
    IF Len(vm.stack) < 2 THEN XPanic(vm, M)
    ELSE LET right == Deref(M, Top(vm.stack, 1))
             left == Deref(M, Top(vm.stack, 2))
             e == is_equal(M, left, right)
         IN  IF e = "X" THEN XPanic([vm EXCEPT !.stack = Popped(vm.stack, 2)], M)
             ELSE LET a == alloc_new_value(M, VBool((e = "T") # negate))
                  IN  PushAfter(vm, a.M, 2, a.p)

\* `for _ in 0..length { array.push(self.stack.pop().unwrap()) }`: the array
\* holds the `length` topmost entries, the topmost first; ok = FALSE when the
\* stack runs out
pop_array(stack, length, array) ==
    IF Len(stack) < length THEN [ok |-> FALSE, stack |-> <<>>, array |-> array]
    ELSE [ok |-> TRUE, stack |-> Popped(stack, length),
          array |-> array \o [i \in 1..length |-> Top(stack, i)]]

\* `while self.stack.len() <= index { self.stack.push(&mut constants[NULL_CONSTANT]) }`
RECURSIVE pad_stack(_, _)
pad_stack(stack, index) ==
    IF Len(stack) > index THEN stack
    ELSE pad_stack(Append(stack, PoolPtr(NULL_CONSTANT)), index)

\* what `push_unchecked` on a full stack (MAKE_ARRAY, vm_bc.rs 762-763) may
\* do: "assert" aborts (the debug assertion of a debug build), "write" stores
\* past the capacity and counts the entry (a release build)
UncheckedPush == {"assert", "write"}

\* one pass of the loop of execute; vm.pc < Len(vm.bytecodes); ub is the
\* outcome of an unchecked push on a full stack
dispatch(vm0, heap, ub) ==
    LET M == Mem(vm0.constants, heap)
        bc == vm0.bytecodes[vm0.pc + 1]
        \* after read_bytecode of the opcode
        vm == [vm0 EXCEPT !.pc = @ + 1]
        \* an operand is read: pc is past it, or the read is out of bounds
        hasOperand == vm.pc < Len(vm.bytecodes)
        operand == vm.bytecodes[vm.pc + 1]
        vmo == [vm EXCEPT !.pc = @ + 1]
        S == vm.stack
    IN
    CASE bc = NOOP -> XRun(vm, M)
      [] bc = POP_LAST ->
            LET v == IF S = <<>> THEN None ELSE Some(Top(S, 1))
                v1 == [vm EXCEPT !.stack = IF S = <<>> THEN S ELSE Popped(S, 1)]
            IN  XRun(IF vm.repl_mode THEN [v1 EXCEPT !.last_popped = v] ELSE v1, M)
      [] bc = REPLACE ->
            IF ~hasOperand \/ S = <<>> THEN XPanic(vm, M)
            ELSE LET v == Top(S, 1)
                     padded == pad_stack(Popped(S, 1), operand)
                     c == shallow_copy(M, v)
                 IN  IF Len(padded) > STACK_SIZE THEN XPanic(vmo, M)
                     ELSE XRun([vmo EXCEPT !.stack = [padded EXCEPT ![operand + 1] = c.p]],
                               c.M)
      [] bc = SET_IN_PLACE ->
            IF Len(S) < 2 THEN XPanic(vm, M)
            ELSE LET v == Top(S, 1)
                     p == Top(S, 2)
                 IN  PushAfter(vm, regular_copy_to(M, v, p), 2, v)
      [] bc = LOAD_CONST ->
            IF ~hasOperand \/ operand >= Len(vm.constants) THEN XPanic(vm, M)
            ELSE LET a == alloc_new_value(M, vm.constants[operand + 1])
                 IN  IF Len(S) >= STACK_SIZE THEN XError(vmo, a.M, "Stack overflow")
                     ELSE XRun([vmo EXCEPT !.stack = Append(S, a.p)], a.M)
      [] bc = LOAD_LOCAL ->
            IF ~hasOperand \/ operand >= Len(S) THEN XPanic(vm, M)
            ELSE PushAfter(vmo, M, 0, S[operand + 1])
      [] bc = MAKE_ARRAY ->
            IF ~hasOperand THEN XPanic(vm, M)
            ELSE LET r == pop_array(S, operand, <<>>)
                     a == alloc_new_value(M, VArray(r.array))
                 IN  IF ~r.ok THEN XPanic(vmo, M)
                     ELSE IF Len(r.stack) >= STACK_SIZE /\ ub = "assert"
                     THEN XPanic(vmo, a.M)
                     ELSE XRun([vmo EXCEPT !.stack = Append(r.stack, a.p)], a.M)
      [] bc \in {JUMP_IF_FALSE, JUMP_IF_FALSE_NO_POP} ->
            IF ~hasOperand \/ S = <<>> THEN XPanic(vm, M)
            ELSE LET v1 == [vmo EXCEPT !.stack = Popped(S, 1)]
                 IN  IF ~is_truthy(Deref(M, Top(S, 1)))
                     THEN XRun([v1 EXCEPT !.pc = operand], M)
                     ELSE XRun(v1, M)
      [] bc = JUMP ->
            IF ~hasOperand THEN XPanic(vm, M)
            ELSE XRun([vmo EXCEPT !.pc = operand], M)
      [] bc = DEBUG_PRINT ->
            IF S = <<>> THEN XPanic(vm, M)
            ELSE LET f == debug_format(M, Deref(M, Top(S, 1)))
                     v1 == [vm EXCEPT !.stack = Popped(S, 1)]
                 IN  IF ~f.ok THEN XPanic(v1, M)
                     ELSE [XRun(v1, M) EXCEPT !.out = Some(f.s)]
      [] bc = GET ->
            IF Len(S) < 2 THEN XPanic(vm, M)
            ELSE LET index == Top(S, 1)
                     callee == Top(S, 2)
                     res == get_element(M, Deref(M, callee), index)
                 IN  IF ~res.ok
                     THEN XError([vm EXCEPT !.stack = Popped(S, 2)], M, res.msg)
                     ELSE PushAfter(vm, res.M, 2, res.p)
      [] bc = UNARY_NEG ->
            IF S = <<>> THEN XPanic(vm, M)
            ELSE LET value == Deref(M, Top(S, 1))
                     v1 == [vm EXCEPT !.stack = Popped(S, 1)]
                 IN  IF value.t = "Int"
                     THEN LET a == alloc_new_value(M,
                                     VInt(IF value.i = I64Min THEN I64Max ELSE -value.i))
                          IN  PushAfter(vm, a.M, 1, a.p)
                     ELSE IF value.t = "Bool"
                     THEN XError(v1, M,
                            "Unsupported Unary operation: -bool (Hint: Use !bool instead)")
                     ELSE XError(v1, M, "Unsupported Unary operation: -"
                                        \o type_name(value))
      [] bc = UNARY_NOT ->
            IF S = <<>> THEN XPanic(vm, M)
            ELSE LET a == alloc_new_value(M, VBool(~is_truthy(Deref(M, Top(S, 1)))))
                 IN  PushAfter(vm, a.M, 1, a.p)
      [] bc = BINARY_ADD -> exec_binary(vm, M, bc, "+")
      [] bc = BINARY_SUB -> exec_binary(vm, M, bc, "-")
      [] bc = BINARY_MUL -> exec_binary(vm, M, bc, "*")
      [] bc = BINARY_DIV -> exec_binary(vm, M, bc, "/")
      [] bc = BINARY_MOD -> exec_binary(vm, M, bc, "%")
      [] bc = BINARY_EQ -> exec_equality(vm, M, FALSE)
      [] bc = BINARY_NE -> exec_equality(vm, M, TRUE)
      [] bc = BINARY_LT -> exec_binary(vm, M, bc, "<")
      [] bc = BINARY_LE -> exec_binary(vm, M, bc, "<=")
      [] bc = BINARY_GT -> exec_binary(vm, M, bc, ">")
      [] bc = BINARY_GE -> exec_binary(vm, M, bc, ">=")
      [] OTHER -> XError(vm, M, "Unknown bytecode: " \o ToString(bc))

\* the head of execute (vm_bc.rs 701-705)
execute_begin(vm) ==
    [vm EXCEPT !.stack = IF Len(@) > vm.current_compiler.count
                         THEN SubSeq(@, 1, vm.current_compiler.count) ELSE @,
               !.last_popped = None,
               !.pc = 0]

(***************************************************************************)
(* The lines typed at the prompt.  A line is [text, ast] with ast = None   *)
(* when parse() returns Err.  The other fields say what the language       *)
(* promises of the line, for the properties below:                         *)
(*   expect     the value of the final expression statement on a new VM    *)
(*   below      for a line ending in `l && r` or `l || r`: the values of   *)
(*              the stack entries under the result                         *)
(*   unassigned a name the line reads before any open scope assigned it    *)
(***************************************************************************)
Line(text, program) ==
    [text |-> text, ast |-> Some(program), expect |-> None, below |-> None,
     unassigned |-> None]
Expecting(line, value) == [line EXCEPT !.expect = Some(value)]
ShortCircuit(line, below, value) ==
    [line EXCEPT !.expect = Some(value), !.below = Some(below)]
Unassigned(line, name) == [line EXCEPT !.unassigned = Some(name)]

I0 == EInt(<<0>>)
I1 == EInt(<<1>>)
I2 == EInt(<<2>>)
I3 == EInt(<<3>>)
I5 == EInt(<<5>>)
I7 == EInt(<<7>>)
Set(name, value) == SExprStmt(ESetVar(name, value))
Get(name) == EGetVar(name)
Bin(l, op, r) == EInfix(l, op, r)
Stmt(e) == SExprStmt(e)

Lines == <<
    Expecting(Line("a = 4; a + 5",
        <<Set("a", EInt(<<4>>)), Stmt(Bin(Get("a"), "+", I5))>>), VInt(9)),
    Expecting(Line("a = -5; b = 30; (a + b) / 5",
        <<Set("a", EPrefix("-", I5)), Set("b", EInt(<<3, 0>>)),
          Stmt(Bin(Bin(Get("a"), "+", Get("b")), "/", I5))>>), VInt(5)),
    Expecting(Line("\"ab\" + \"c\"",
        <<Stmt(Bin(EString(<<"a", "b">>), "+", EString(<<"c">>)))>>),
        VString(<<"a", "b", "c">>)),
    Expecting(Line("if false { 8 }",
        <<Stmt(EIf(EBool(FALSE), <<Stmt(EInt(<<8>>))>>, <<>>))>>), VNull),
    Expecting(Line("[10, 20, 30][1]",
        <<Stmt(EIndex(EArray(<<EInt(<<1, 0>>), EInt(<<2, 0>>), EInt(<<3, 0>>)>>), I1))>>),
        VInt(20)),
    Expecting(Line("1 + 1 == 2 == !false",
        <<Stmt(Bin(Bin(Bin(I1, "+", I1), "==", I2), "==", EPrefix("!", EBool(FALSE))))>>),
        VBool(TRUE)),
    Expecting(Line("i = 0; while i < 2 { i = i + 1 }; i",
        <<Set("i", I0),
          Stmt(EWhile(Bin(Get("i"), "<", I2), <<Set("i", Bin(Get("i"), "+", I1))>>)),
          Stmt(Get("i"))>>), VInt(2)),
    Expecting(Line("while true { if true { break }; next }",
        <<Stmt(EWhile(EBool(TRUE),
            <<Stmt(EIf(EBool(TRUE), <<SBreak>>, <<>>)), SNext>>))>>), VNull),
    Line("debug 3", <<SDebugPrint(I3)>>),
    Line("10 / 0", <<Stmt(Bin(EInt(<<1, 0>>), "/", I0))>>),
    Line("10 / 0 + 5", <<Stmt(Bin(Bin(EInt(<<1, 0>>), "/", I0), "+", I5))>>),
    Line("1 + 1; 7 % 0", <<Stmt(Bin(I1, "+", I1)), Stmt(Bin(I7, "%", I0))>>),
    Line("1.5 / 0.0", <<Stmt(Bin(EFloat(<<1>>, <<5>>), "/", EFloat(<<0>>, <<0>>)))>>),
    Line("7 % 0.0", <<Stmt(Bin(I7, "%", EFloat(<<0>>, <<0>>)))>>),
    Expecting(Line("6 / 3", <<Stmt(Bin(EInt(<<6>>), "/", I3))>>), VInt(2)),
    Expecting(Line("7 % 3", <<Stmt(Bin(I7, "%", I3))>>), VInt(1)),
    Expecting(Line("7 / 0.5", <<Stmt(Bin(I7, "/", EFloat(<<0>>, <<5>>)))>>),
        VFloat(RatOfInt(14))),
    Line("-true", <<Stmt(EPrefix("-", EBool(TRUE)))>>),
    Line("[1][5]", <<Stmt(EIndex(EArray(<<I1>>), I5))>>),
    ShortCircuit(Line("0 && 2", <<Stmt(Bin(I0, "&&", I2))>>), <<>>, VInt(0)),
    ShortCircuit(Line("1 && 2", <<Stmt(Bin(I1, "&&", I2))>>), <<>>, VInt(2)),
    ShortCircuit(Line("0 || 2", <<Stmt(Bin(I0, "||", I2))>>), <<>>, VInt(2)),
    ShortCircuit(Line("1 || 2", <<Stmt(Bin(I1, "||", I2))>>), <<>>, VInt(1)),
    ShortCircuit(Line("x = 5; true && 7",
        <<Set("x", I5), Stmt(Bin(EBool(TRUE), "&&", I7))>>), <<VInt(5)>>, VInt(7)),
    Expecting(Line("1 + (a = 2)", <<Stmt(Bin(I1, "+", ESetVar("a", I2)))>>), VInt(3)),
    Line("a = 1 / 0", <<Set("a", Bin(I1, "/", I0))>>),
    Unassigned(Line("a", <<Stmt(Get("a"))>>), "a"),
    Unassigned(Line("x = x + 1", <<Set("x", Bin(Get("x"), "+", I1))>>), "x"),
    Unassigned(Line("do { y = 1 }; y", <<Stmt(EDo(<<Set("y", I1)>>)), Stmt(Get("y"))>>),
        "y"),
    Unassigned(Line("1 + zz", <<Stmt(Bin(I1, "+", Get("zz")))>>), "zz"),
    Expecting(Line("a = [1, 2]; b = a; b[0] = 7; a[0]",
        <<Set("a", EArray(<<I1, I2>>)), Set("b", Get("a")),
          SPointerAssign(EIndex(Get("b"), I0), I7), Stmt(EIndex(Get("a"), I0))>>),
        VInt(7)),
    Expecting(Line("a = 1; b = a; a = 2; b",
        <<Set("a", I1), Set("b", Get("a")), Set("a", I2), Stmt(Get("b"))>>), VInt(1)),
    Expecting(Line("a = 1; b = a; b = 2; a",
        <<Set("a", I1), Set("b", Get("a")), Set("b", I2), Stmt(Get("a"))>>), VInt(1)),
    Unassigned(Line("b = 2; c = [a]; c[0] = 5",
        <<Set("b", I2), Set("c", EArray(<<Get("a")>>)),
          SPointerAssign(EIndex(Get("c"), I0), I5)>>), "a"),
    Expecting(Line("false && (p = 1); q = 2; c = [p]; c[0] = 5; if false { 8 }",
        <<Stmt(Bin(EBool(FALSE), "&&", ESetVar("p", I1))), Set("q", I2),
          Set("c", EArray(<<Get("p")>>)), SPointerAssign(EIndex(Get("c"), I0), I5),
          Stmt(EIf(EBool(FALSE), <<Stmt(EInt(<<8>>))>>, <<>>))>>), VNull),
    Expecting(Line("x = []; b = 7; [x, 2, 3, 4] == b",
        <<Set("x", EArray(<<>>)), Set("b", I7),
          Stmt(Bin(EArray(<<Get("x"), I2, I3, EInt(<<4>>)>>), "==", Get("b")))>>),
        VBool(FALSE)),
    Line("break", <<SBreak>>),
    Line("while true { zz }",
        <<Stmt(EWhile(EBool(TRUE), <<Stmt(Get("zz"))>>))>>),
    [text |-> "1 +", ast |-> None, expect |-> None, below |-> None,
     unassigned |-> None]
>>

(***************************************************************************)
(* The REPL (repl.rs 13-85) around one VM.                                 *)
(*   phase   where Repl::run stands: "prompt" before read_line, "read"     *)
(*           after set_source, "compiled" after compile, "optimized" after *)
(*           optimize, "executing" inside the loop of execute, "executed"  *)
(*           after execute returned, "aborted" after a panic               *)
(*   cur     the line read (an index of Lines), lineNo how many were read  *)
(*   output  what was printed                                              *)
(*   steps   passes of the loop of execute made for the current line       *)
(*   allocations  ALL_ALLOCATIONS (memory.rs 20-22): the collector state  *)
(*           of every cell that is allocated                               *)
(*   locals  history: the stack positions that hold a local slot, that is, *)
(*           an entry stored or padded by REPLACE and not popped since     *)
(***************************************************************************)
VARIABLES vm, heap, allocations, phase, cur, lineNo, output, crashed, steps, locals

vars == <<vm, heap, allocations, phase, cur, lineNo, output, crashed, steps, locals>>

Init ==
    /\ vm = [VMDefault EXCEPT !.repl_mode = TRUE]
    /\ heap = <<>>
    /\ allocations = <<>>
    /\ phase = "prompt"
    /\ cur = 1
    /\ lineNo = 0
    /\ output = <<>>
    /\ crashed = FALSE
    /\ steps = 0
    /\ locals = {}

\* alloc_value_ptr (memory.rs 28-35) for the cells from + 1 .. to: each is
\* entered in ALL_ALLOCATIONS as White
allocated(all, from, to) ==
    [c \in DOMAIN all \cup (from + 1)..to |->
        IF c \in DOMAIN all THEN all[c] ELSE "White"]

\* the opcode and the operand at pc
NextOpcode == vm.bytecodes[vm.pc + 1]
NextOperand == vm.bytecodes[vm.pc + 2]
HasOperand == vm.pc + 1 < Len(vm.bytecodes)
Dispatching == phase = "executing" /\ vm.pc < Len(vm.bytecodes)

\* the number of stack entries the arm of the opcode at pc pops
pops ==
    CASE NextOpcode = POP_LAST -> IF vm.stack = <<>> THEN 0 ELSE 1
      [] NextOpcode \in {REPLACE, JUMP_IF_FALSE, JUMP_IF_FALSE_NO_POP, DEBUG_PRINT,
                         UNARY_NEG, UNARY_NOT} -> 1
      [] NextOpcode \in {SET_IN_PLACE, GET, BINARY_ADD, BINARY_SUB, BINARY_MUL,
                         BINARY_DIV, BINARY_MOD, BINARY_EQ, BINARY_NE, BINARY_LT,
                         BINARY_LE, BINARY_GT, BINARY_GE} -> 2
      [] NextOpcode = MAKE_ARRAY /\ HasOperand -> NextOperand
      [] OTHER -> 0

\* the stack height under the entries the pass at pc pops
low == Len(vm.stack) - pops

\* the local slots after the pass at pc
locals_after ==
    LET kept == {p \in locals : p < low} IN
    IF NextOpcode = REPLACE /\ HasOperand
    THEN kept \cup (low .. NextOperand) \cup {NextOperand}
    ELSE kept

\* read_line, `self.vm.error = None`, set_source (repl.rs 22-32)
ReadLine ==
    /\ phase = "prompt"
    /\ lineNo < MaxLines
    /\ \E i \in 1..Len(Lines) : cur' = i
    /\ lineNo' = lineNo + 1
    /\ vm' = [vm EXCEPT !.error = None]
    /\ phase' = "read"
    /\ steps' = 0
    /\ UNCHANGED <<heap, allocations, output, crashed, locals>>

\* parse returned Err (repl.rs 63-82)
SyntaxError ==
    /\ phase = "read"
    /\ Lines[cur].ast = None
    /\ output' = Append(output, [kind |-> "SyntaxError"])
    /\ phase' = "prompt"
    /\ UNCHANGED <<vm, heap, allocations, cur, lineNo, crashed, steps, locals>>

\* self.vm.compile(&ast_) (repl.rs 36)
Compile ==
    /\ phase = "read"
    /\ Lines[cur].ast # None
    /\ LET r == compile(vm, Unwrap(Lines[cur].ast)) IN
       /\ vm' = r.vm
       /\ crashed' = r.panic
       /\ phase' = IF r.panic THEN "aborted" ELSE "compiled"
    /\ UNCHANGED <<heap, allocations, cur, lineNo, output, steps, locals>>

\* `if let Some(e) = &self.vm.error { println!(..); continue; }` (repl.rs 38-41)
ReportCompileError ==
    /\ phase = "compiled"
    /\ IsSome(vm.error)
    /\ output' = Append(output, [kind |-> "Error", error |-> Unwrap(vm.error)])
    /\ phase' = "prompt"
    /\ UNCHANGED <<vm, heap, allocations, cur, lineNo, crashed, steps, locals>>

\* self.vm.optimize() (repl.rs 43)
Optimize ==
    /\ phase = "compiled"
    /\ ~IsSome(vm.error)
    /\ vm' = optimize(vm)
    /\ phase' = "optimized"
    /\ UNCHANGED <<heap, allocations, cur, lineNo, output, crashed, steps, locals>>

\* self.vm.execute() is entered (repl.rs 48, vm_bc.rs 701-705)
ExecuteBegin ==
    /\ phase = "optimized"
    /\ vm' = execute_begin(vm)
    /\ locals' = {p \in locals : p < vm.current_compiler.count}
    /\ phase' = "executing"
    /\ UNCHANGED <<heap, allocations, cur, lineNo, output, crashed, steps>>

\* one pass of the loop of execute (vm_bc.rs 706-1029)
Step ==
    /\ Dispatching
    /\ steps < MaxSteps
    /\ \E ub \in UncheckedPush : LET x == dispatch(vm, heap, ub) IN
       /\ vm' = x.vm
       /\ heap' = x.heap
       /\ allocations' = allocated(allocations, Len(heap), Len(x.heap))
       /\ output' = IF IsSome(x.out)
                    THEN Append(output, [kind |-> "Print", chars |-> Unwrap(x.out)])
                    ELSE output
       /\ crashed' = (x.kind = "Panic")
       /\ phase' = CASE x.kind = "Run" -> "executing"
                     [] x.kind = "Halt" -> "executed"
                     [] x.kind = "Panic" -> "aborted"
       /\ locals' = IF x.kind = "Run" THEN locals_after ELSE locals
    /\ steps' = steps + 1
    /\ UNCHANGED <<cur, lineNo>>

\* the loop of execute ends: pc is at the end of the code
ExecuteReturn ==
    /\ phase = "executing"
    /\ vm.pc >= Len(vm.bytecodes)
    /\ phase' = "executed"
    /\ UNCHANGED <<vm, heap, allocations, cur, lineNo, output, crashed, steps, locals>>

\* after execute: the error or the last popped value is printed (repl.rs 52-62)
Report ==
    /\ phase = "executed"
    /\ IF IsSome(vm.error)
       THEN /\ output' = Append(output, [kind |-> "Error", error |-> Unwrap(vm.error)])
            /\ phase' = "prompt"
            /\ crashed' = FALSE
       ELSE IF IsSome(vm.last_popped)
               /\ Deref(Mem(vm.constants, heap), Unwrap(vm.last_popped)) # VNull
       THEN LET f == debug_format(Mem(vm.constants, heap),
                        Deref(Mem(vm.constants, heap), Unwrap(vm.last_popped)))
            IN  /\ output' = IF f.ok THEN Append(output, [kind |-> "Value", chars |-> f.s])
                             ELSE output
                /\ phase' = IF f.ok THEN "prompt" ELSE "aborted"
                /\ crashed' = ~f.ok
       ELSE /\ output' = output
            /\ phase' = "prompt"
            /\ crashed' = FALSE
    /\ UNCHANGED <<vm, heap, allocations, cur, lineNo, steps, locals>>

Next ==
    \/ ReadLine
    \/ SyntaxError
    \/ Compile
    \/ ReportCompileError
    \/ Optimize
    \/ ExecuteBegin
    \/ Step
    \/ ExecuteReturn
    \/ Report

Spec == Init /\ [][Next]_vars

(***************************************************************************)
(* A caller of the public methods of VM other than Repl::run: it enters    *)
(* execute (vm_bc.rs 700) without looking at the error slot, after a       *)
(* compile that failed or after a run that halted.                         *)
(***************************************************************************)
ExecuteWhileError ==
    /\ phase \in {"compiled", "executed"}
    /\ IsSome(vm.error)
    /\ steps < MaxSteps
    /\ vm' = execute_begin(vm)
    /\ locals' = {p \in locals : p < vm.current_compiler.count}
    /\ phase' = "executing"
    /\ steps' = steps + 1
    /\ UNCHANGED <<heap, allocations, cur, lineNo, output, crashed>>

NextClient ==
    \/ Next
    \/ ExecuteWhileError

SpecClient == Init /\ [][NextClient]_vars

(***************************************************************************)
(* Properties.                                                             *)
(***************************************************************************)
memory == Mem(vm.constants, heap)
ValueOf(p) == Deref(memory, p)
IsZero(v) == (v.t = "Int" /\ v.i = 0) \/ (v.t = "Float" /\ v.f.n = 0)
FinalIsExprStmt ==
    /\ Lines[cur].ast # None
    /\ Unwrap(Lines[cur].ast)[Len(Unwrap(Lines[cur].ast))].k = "ExprStmt"

\* C1: in REPL mode, after compile, optimize and execute of a line that raises
\* no error and ends in an expression statement, last_popped holds the value
\* of that final expression, and optimize leaves the final POP_LAST in place.
C1_LastPoppedIsFinalValue ==
    /\ (phase = "optimized" /\ FinalIsExprStmt)
            => vm.bytecodes[Len(vm.bytecodes)] = POP_LAST
    /\ (phase = "executed" /\ ~IsSome(vm.error) /\ IsSome(Lines[cur].expect))
            => /\ IsSome(vm.last_popped)
               /\ ValueOf(Unwrap(vm.last_popped)) = Unwrap(Lines[cur].expect)

\* C2: when the code of a first line ending in `l && r` or `l || r` reaches
\* the POP_LAST of that statement, the stack holds the entries that were there
\* before l was evaluated, unchanged, and above them exactly one value: the
\* value of l or of r the operator selects.
C2_ShortCircuitLeavesOneValue ==
    (/\ Dispatching
     /\ lineNo = 1
     /\ IsSome(Lines[cur].below)
     /\ vm.pc = Len(vm.bytecodes) - 1)
        => /\ Len(vm.stack) = Len(Unwrap(Lines[cur].below)) + 1
           /\ \A i \in 1..Len(Unwrap(Lines[cur].below)) :
                 ValueOf(vm.stack[i]) = Unwrap(Lines[cur].below)[i]
           /\ ValueOf(Top(vm.stack, 1)) = Unwrap(Lines[cur].expect)

\* C3: whenever execute dispatches an opcode, the entries the opcode pops lie
\* above every local slot, and a REPLACE idx that writes a position already on
\* the stack writes a local slot, never a pending operand.
C3_LocalSlotRegion ==
    Dispatching
        => /\ \A p \in locals : p < low
           /\ (NextOpcode = REPLACE /\ HasOperand /\ NextOperand < low)
                 => NextOperand \in locals

\* C4: whenever execute dispatches LOAD_LOCAL idx, stack position idx exists
\* and is a local slot.
C4_LoadLocalSlotExists ==
    (Dispatching /\ NextOpcode = LOAD_LOCAL /\ HasOperand)
        => NextOperand < Len(vm.stack) /\ NextOperand \in locals

\* C5: compiling a first line that reads a name before any open scope
\* assigned it sets the compile error "Variable '<name>' is not defined".
C5_UndefinedVariable ==
    (phase = "compiled" /\ lineNo = 1 /\ IsSome(Lines[cur].unassigned))
        => /\ IsSome(vm.error)
           /\ Unwrap(vm.error).stage = "Compile-time"
           /\ Unwrap(vm.error).message =
                "Variable '" \o Unwrap(Lines[cur].unassigned) \o "' is not defined"

\* the lines that assign b = a and then change one of the two variables
AliasLines ==
    {"a = [1, 2]; b = a; b[0] = 7; a[0]", "a = 1; b = a; a = 2; b",
     "a = 1; b = a; b = 2; a"}

\* C6: a REPLACE idx whose operand is the handle of another local slot j (the
\* code of `b = a`) leaves slot idx with the same handle as slot j when the
\* value is an Array, and with a new cell holding a clone otherwise; the lines
\* that update an array through b or reassign a scalar end with the value the
\* aliasing rule gives.
C6_AssignAliasesArraysCopiesScalars ==
    [][/\ (/\ Dispatching
           /\ NextOpcode = REPLACE
           /\ HasOperand
           /\ vm.stack # <<>>
           /\ phase' = "executing")
            => \A j \in locals :
                  (j # NextOperand /\ j < low /\ vm.stack[j + 1] = Top(vm.stack, 1))
                    => IF ValueOf(Top(vm.stack, 1)).t = "Array"
                       THEN vm'.stack[NextOperand + 1] = vm'.stack[j + 1]
                       ELSE /\ vm'.stack[NextOperand + 1] # vm'.stack[j + 1]
                            /\ vm'.stack[NextOperand + 1] = Len(heap) + 1
                            /\ heap'[Len(heap) + 1] = ValueOf(Top(vm.stack, 1))
       /\ (/\ phase = "executing"
           /\ phase' = "executed"
           /\ Lines[cur].text \in AliasLines)
            => /\ ~IsSome(vm'.error)
               /\ IsSome(vm'.last_popped)
               /\ heap'[Unwrap(vm'.last_popped)] = Unwrap(Lines[cur].expect)
      ]_vars

\* C6 witness: the line that writes 7 through b has run and a[0] is 7
C6_Witness ==
    /\ phase = "executed"
    /\ Lines[cur].text = "a = [1, 2]; b = a; b[0] = 7; a[0]"
    /\ IsSome(vm.last_popped)
    /\ ValueOf(Unwrap(vm.last_popped)) = VInt(7)
    /\ vm.stack[1] = vm.stack[2]

\* C7: the pool entries 0, 1, 2 stay false, true, null; no stack entry and no
\* array element is a pointer into the constant pool, and SET_IN_PLACE never
\* writes through one.
C7_ConstantPoolUnchanged ==
    /\ SubSeq(vm.constants, 1, 3) = <<VBool(FALSE), VBool(TRUE), VNull>>
    /\ \A i \in 1..Len(vm.stack) : ~IsPoolPtr(vm.stack[i])
    /\ \A c \in 1..Len(heap) :
          heap[c].t = "Array" => \A i \in 1..Len(heap[c].a) : ~IsPoolPtr(heap[c].a[i])

C9_NoDispatchWhileError ==
    [][IsSome(vm.error)
        => /\ vm'.stack = vm.stack
           /\ heap' = heap
           /\ vm'.last_popped = vm.last_popped
           /\ vm'.pc = vm.pc
           /\ \/ output' = output
              \/ output' = Append(output, [kind |-> "Error", error |-> Unwrap(vm.error)])
      ]_vars

\* C10: when an opcode raises a runtime error, pc stays at the offset of that
\* opcode and the span of the error is lines[that offset].
C10_ErrorAtFaultingOpcode ==
    [][(Dispatching /\ ~IsSome(vm.error) /\ IsSome(vm'.error))
        => /\ vm'.pc = vm.pc
           /\ Unwrap(vm'.error).span = vm.lines[vm.pc + 1]
      ]_vars

\* C11: no pass of the loop of execute aborts the process: an opcode that
\* finds too few stack entries, a LOAD_LOCAL idx with idx not below the stack
\* height, or an operand of an unsupported variant sets the error slot or
\* yields a result.
C11_NoOpcodeAborts ==
    [][Dispatching => (phase' # "aborted" /\ ~crashed')]_vars

(***************************************************************************)
(* Lines that fill the evaluation stack.  An array literal pushes its      *)
(* elements before MAKE_ARRAY pops them (vm_bc.rs 333-339), so a literal   *)
(* with more elements than the stack has room for reaches a pushing opcode *)
(* with `size` entries on the stack:                                       *)
(*   "LOAD_CONST"  [0, .., 0] with size + 1 zeros                          *)
(*   "LOAD_LOCAL"  a = 0; [a, 0, .., 0] with size - 1 zeros                *)
(*   "MAKE_ARRAY"  [[], 0, .., 0] with size zeros                          *)
(* The code of such a line and the state after its first passes are given  *)
(* in closed form, since they are too long to unfold unit by unit; the     *)
(* closed forms are compared with compile, optimize and dispatch on short  *)
(* lines in FullAgrees.                                                    *)
(***************************************************************************)
FullKinds == {"LOAD_CONST", "LOAD_LOCAL", "MAKE_ARRAY"}
Zeros(n) == [i \in 1..n |-> I0]
FullProgram(kind, size) ==
    CASE kind = "LOAD_CONST" -> <<Stmt(EArray(Zeros(size + 1)))>>
      [] kind = "LOAD_LOCAL" ->
            <<Set("a", I0), Stmt(EArray(<<Get("a")>> \o Zeros(size - 1)))>>
      [] kind = "MAKE_ARRAY" -> <<Stmt(EArray(<<EArray(<<>>)>> \o Zeros(size)))>>

\* the number of zeros of the literal, and of its elements
FullZeros(kind, size) ==
    CASE kind = "LOAD_CONST" -> size + 1
      [] kind = "LOAD_LOCAL" -> size - 1
      [] kind = "MAKE_ARRAY" -> size
FullElements(kind, size) == IF kind = "LOAD_CONST" THEN size + 1 ELSE FullZeros(kind, size) + 1

\* the code before the LOAD_CONSTs of the zeros, and after them, with spans
FullHead(kind) ==
    IF kind = "LOAD_LOCAL"
    THEN [bytecodes |-> <<LOAD_CONST, 3, REPLACE, 0, NOOP, NOOP, NOOP>>,
          lines |-> <<<<1, 1>>, <<1, 1>>, <<1>>, <<1>>, <<1>>, <<1>>, <<1>>>>]
    ELSE [bytecodes |-> <<>>, lines |-> <<>>]
FullTail(kind, size) ==
    CASE kind = "LOAD_CONST" ->
            [bytecodes |-> <<MAKE_ARRAY, size + 1, POP_LAST>>,
             lines |-> <<<<1>>, <<1>>, <<1>>>>]
      [] kind = "LOAD_LOCAL" ->
            [bytecodes |-> <<LOAD_LOCAL, 0, MAKE_ARRAY, size, POP_LAST>>,
             lines |-> <<<<2, 1>>, <<2, 1>>, <<2>>, <<2>>, <<2>>>>]
      [] kind = "MAKE_ARRAY" ->
            [bytecodes |-> <<MAKE_ARRAY, 0, MAKE_ARRAY, size + 1, POP_LAST>>,
             lines |-> <<<<1, 1>>, <<1, 1>>, <<1>>, <<1>>, <<1>>>>]

\* the VM after compile and optimize of the line on a new VM in REPL mode
FullCode(kind, size) ==
    [VMDefault EXCEPT
        !.repl_mode = TRUE,
        !.bytecodes = FullHead(kind).bytecodes
            \o [j \in 1..(2 * FullZeros(kind, size)) |->
                    IF j % 2 = 1 THEN LOAD_CONST ELSE 3]
            \o FullTail(kind, size).bytecodes,
        !.lines = FullHead(kind).lines
            \o [j \in 1..(2 * FullZeros(kind, size)) |->
                    <<IF kind = "LOAD_LOCAL" THEN 2 ELSE 1,
                      FullElements(kind, size) - ((j + 1) \div 2) + 1>>]
            \o FullTail(kind, size).lines,
        !.constants = Append(@, VInt(0)),
        !.constant_hash_int = MapPut(@, 0, 3),
        !.current_compiler.local_map =
            IF kind = "LOAD_LOCAL" THEN <<MapPut(EmptyMap, "a", 0)>> ELSE @,
        !.current_compiler.count = IF kind = "LOAD_LOCAL" THEN 1 ELSE 0]

\* the outcome of the first passes of execute, those of the head and k
\* LOAD_CONSTs of zeros: every pass allocates one cell
FullRun(kind, size, k) ==
    LET h == IF kind = "LOAD_LOCAL" THEN 2 ELSE 0 IN
    [vm |-> [FullCode(kind, size) EXCEPT
                !.pc = Len(FullHead(kind).bytecodes) + 2 * k,
                !.stack = (IF kind = "LOAD_LOCAL" THEN <<2>> ELSE <<>>)
                            \o [i \in 1..k |-> h + i]],
     heap |-> [i \in 1..(h + k) |-> VInt(0)],
     out |-> None,
     kind |-> "Run"]

\* n passes of the loop of execute
RECURSIVE run_passes(_, _)
run_passes(x, n) ==
    IF n = 0 THEN x ELSE run_passes(dispatch(x.vm, x.heap, "assert"), n - 1)

\* the closed forms are what compile, optimize and the passes of execute give
FullAgrees ==
    \A kind \in FullKinds : \A size \in 1..3 :
        /\ FullCode(kind, size) =
              optimize(compile([VMDefault EXCEPT !.repl_mode = TRUE],
                               FullProgram(kind, size)).vm)
        /\ \A k \in 0..FullZeros(kind, size) :
              FullRun(kind, size, k) =
                  run_passes([vm |-> execute_begin(FullCode(kind, size)),
                              heap |-> <<>>, out |-> None, kind |-> "Run"],
                             k + (IF kind = "LOAD_LOCAL" THEN 5 ELSE 0))

\* the number of LOAD_CONST passes left before the stack is full
Margin == 45

\* execute is Margin passes away from a full stack
InitFull ==
    /\ FullAgrees
    /\ \E kind \in FullKinds :
          /\ vm = FullRun(kind, STACK_SIZE, FullZeros(kind, STACK_SIZE) - Margin).vm
          /\ heap = FullRun(kind, STACK_SIZE, FullZeros(kind, STACK_SIZE) - Margin).heap
          /\ allocations =
                allocated(<<>>, 0, Len(FullRun(kind, STACK_SIZE,
                                               FullZeros(kind, STACK_SIZE) - Margin).heap))
          /\ locals = IF kind = "LOAD_LOCAL" THEN {0} ELSE {}
    /\ phase = "executing"
    /\ cur = 1
    /\ lineNo = 1
    /\ output = <<>>
    /\ crashed = FALSE
    /\ steps = 0

NextFull ==
    \/ Step
    \/ ExecuteReturn

SpecFull == InitFull /\ [][NextFull]_vars

\* the opcodes whose arm pushes without popping first
PushingOpcodes == {LOAD_CONST, LOAD_LOCAL, MAKE_ARRAY}

\* C12: a pass that would push onto a stack of STACK_SIZE entries sets the
\* runtime error "Stack overflow" and halts; the stack never holds more than
\* STACK_SIZE entries and no push aborts the process.
C12_StackOverflowIsAnError ==
    [][/\ (/\ Dispatching
           /\ NextOpcode \in PushingOpcodes
           /\ low >= STACK_SIZE)
            => /\ IsSome(vm'.error)
               /\ Unwrap(vm'.error).stage = "Runtime"
               /\ Unwrap(vm'.error).message = "Stack overflow"
               /\ phase' = "executed"
       /\ Len(vm'.stack) <= STACK_SIZE
       /\ ~crashed'
      ]_vars

(***************************************************************************)
(* The collector (memory.rs 46-104).  ALL_ALLOCATIONS maps every allocated *)
(* cell to its GCItemState; mark and sweep are called by the owner of the  *)
(* roots, never by VM::execute.                                            *)
(***************************************************************************)
\* Value::referenced_children (value.rs 98-103)
referenced_children(v) == IF v.t = "Array" THEN v.a ELSE <<>>

\* a faulty loop over the children that greys every child in the table,
\* whatever its colour
RECURSIVE grey_children_any(_, _, _)
grey_children_any(all, grey, children) ==
    IF children = <<>> THEN [all |-> all, grey |-> grey]
    ELSE IF Head(children) \in DOMAIN all
    THEN grey_children_any([all EXCEPT ![Head(children)] = "Grey"],
                           Append(grey, Head(children)), Tail(children))
    ELSE grey_children_any(all, grey, Tail(children))

\* `for child in children { .. }` of mark: a White child becomes Grey and is
\* pushed on grey_objects
RECURSIVE grey_children(_, _, _)
grey_children(all, grey, children) ==
    IF children = <<>> THEN [all |-> all, grey |-> grey]
    ELSE IF Head(children) \in DOMAIN all /\ all[Head(children)] = "White"
    THEN grey_children([all EXCEPT ![Head(children)] = "Grey"],
                       Append(grey, Head(children)), Tail(children))
    ELSE grey_children(all, grey, Tail(children))

\* `while !grey_objects.is_empty() { let g = grey_objects.pop().unwrap(); .. }`
RECURSIVE mark_loop(_, _, _)
mark_rest(r, H) == mark_loop(r.all, H, r.grey)
mark_loop(all, H, grey) ==
    IF grey = <<>> THEN all
    ELSE IF grey[Len(grey)] \in DOMAIN all /\ all[grey[Len(grey)]] = "Grey"
    THEN mark_rest(grey_children([all EXCEPT ![grey[Len(grey)]] = "Black"],
                                 SubSeq(grey, 1, Len(grey) - 1),
                                 referenced_children(H[grey[Len(grey)]])), H)
    ELSE mark_loop(all, H, SubSeq(grey, 1, Len(grey) - 1))

\* a faulty mark that blackens the node and does not look at its children
mark_node_only(all, H, node) ==
    IF node \in DOMAIN all /\ all[node] = "White"
    THEN [all EXCEPT ![node] = "Black"] ELSE all

\* mark(node): ALL_ALLOCATIONS after the call
mark(all, H, node) ==
    IF node \in DOMAIN all /\ all[node] = "White"
    THEN mark_loop([all EXCEPT ![node] = "Grey"], H, <<node>>)
    ELSE all

\* sweep(): the White cells are deallocated and removed, every other cell is
\* set to White
sweep(all) == [c \in {c \in DOMAIN all : all[c] # "White"} |-> "White"]

\* the cells of the heaps the collector is run on, and the values of a cell:
\* an Int or an Array of some of the cells, in ascending order
MaxCells == 3
GCCells == 1..MaxCells
GCValues ==
    {VInt(0)} \cup
    {VArray(a) : a \in {b \in UNION {[1..n -> GCCells] : n \in 0..MaxCells} :
                            \A i \in 1..Len(b) : \A j \in 1..Len(b) :
                                i < j => b[i] < b[j]}}

\* a heap of MaxCells cells whose first cells are the roots (the stack), every
\* cell in one of the `states`
InitCollector(states) ==
    /\ heap \in [GCCells -> GCValues]
    /\ \E r \in 0..MaxCells : vm = [VMDefault EXCEPT !.stack = [i \in 1..r |-> i]]
    /\ allocations \in [GCCells -> states]
    /\ phase = "allocated"
    /\ cur = 1
    /\ lineNo = 0
    /\ output = <<>>
    /\ crashed = FALSE
    /\ steps = 0
    /\ locals = {}

\* mark(root) for a root on the stack
Mark ==
    /\ phase \in {"allocated", "marked", "swept"}
    /\ \E i \in 1..Len(vm.stack) : allocations' = mark(allocations, heap, vm.stack[i])
    /\ phase' = "marked"
    /\ UNCHANGED <<vm, heap, cur, lineNo, output, crashed, steps, locals>>

\* sweep()
Sweep ==
    /\ phase \in {"allocated", "marked", "swept"}
    /\ allocations' = sweep(allocations)
    /\ phase' = "swept"
    /\ UNCHANGED <<vm, heap, cur, lineNo, output, crashed, steps, locals>>

NextCollector ==
    \/ Mark
    \/ Sweep

\* every cell comes from alloc_value_ptr or was kept by a sweep
InitWhite == InitCollector({"White"})
SpecCollector == InitWhite /\ [][NextCollector]_vars

\* some cells were entered in ALL_ALLOCATIONS as Persistent by their owner
InitPersistent == InitCollector({"White", "Persistent"})
SpecPersistent == InitPersistent /\ [][NextCollector]_vars

\* the roots, and the cells reachable from the set S of cells through the
\* element lists of Arrays
Roots == {vm.stack[i] : i \in 1..Len(vm.stack)}
RECURSIVE Reach(_)
Reach(S) ==
    LET T == S \cup UNION {{heap[c].a[i] : i \in 1..Len(heap[c].a)} :
                            c \in {d \in S : heap[d].t = "Array"}}
    IN  IF T = S THEN S ELSE Reach(T)
Marked(c) == c \in DOMAIN allocations /\ allocations[c] = "Black"

\* C13: a sweep() that follows mark(r) for every root r leaves every cell
\* reachable from a root allocated, cycles and shared children included; the
\* cells a sweep() deallocates are not reachable from any marked root.
C13_SweepKeepsReachable ==
    [][phase' = "swept"
        => /\ (\A r \in Roots : Marked(r))
                => \A c \in Reach(Roots) : c \in DOMAIN allocations'
           /\ \A c \in DOMAIN allocations \ DOMAIN allocations' :
                 c \notin Reach({r \in Roots : Marked(r)})
      ]_vars

\* C13 witness: after a sweep the root 1, an Array that holds itself and the
\* cell 2, is allocated with cell 2, and cell 3 was deallocated
C13_Witness ==
    /\ phase = "swept"
    /\ Roots = {1}
    /\ heap[1] = VArray(<<1, 2>>)
    /\ DOMAIN allocations = {1, 2}

\* C14: a Persistent cell stays allocated and Persistent in every step of the
\* collector, reachable from a marked root or not.
C14_PersistentIsKept ==
    [][\A c \in DOMAIN allocations :
            allocations[c] = "Persistent"
                => c \in DOMAIN allocations' /\ allocations'[c] = "Persistent"
      ]_vars

(***************************************************************************)
(* Loops: compile (vm_bc.rs 187-195) on programs made of one while loop    *)
(* whose body holds break, next, an if with both, and inner while loops.   *)
(* Here cur is the program read itself, and the VM is a new one or one     *)
(* whose last compile failed inside a loop body.                           *)
(***************************************************************************)
MaxBody == 2

\* the statement lists of at most MaxBody statements of S
Bodies(S) == UNION {[1..n -> S] : n \in 0..MaxBody}

InnerStatements == {SBreak, SNext}
LoopStatements ==
    InnerStatements
        \cup {SExprStmt(EIf(EBool(TRUE), <<SBreak>>, <<SNext>>))}
        \cup {SExprStmt(EWhile(EBool(FALSE), b)) : b \in Bodies(InnerStatements)}
LoopConditions == {EBool(TRUE), EInfix(EInt(<<1>>), "<", EInt(<<2>>))}
LoopPrograms ==
    {<<SExprStmt(EWhile(c, b))>> :
        c \in LoopConditions, b \in Bodies(LoopStatements) \ {<<>>}}

\* `while true { zz }`: the compile fails at zz, inside the body
FailsInLoop == <<SExprStmt(EWhile(EBool(TRUE), <<SExprStmt(EGetVar("zz"))>>))>>

InitLoops ==
    /\ vm \in {[VMDefault EXCEPT !.repl_mode = TRUE],
               [compile([VMDefault EXCEPT !.repl_mode = TRUE], FailsInLoop).vm
                    EXCEPT !.error = None]}
    /\ cur \in LoopPrograms
    /\ heap = <<>>
    /\ allocations = <<>>
    /\ phase = "read"
    /\ lineNo = 1
    /\ output = <<>>
    /\ crashed = FALSE
    /\ steps = 0
    /\ locals = {}

\* self.vm.compile(&ast_) (repl.rs 36)
CompileLoop ==
    /\ phase = "read"
    /\ LET r == compile(vm, cur) IN
       /\ vm' = r.vm
       /\ crashed' = r.panic
       /\ phase' = IF r.panic THEN "aborted" ELSE "compiled"
    /\ UNCHANGED <<heap, allocations, cur, lineNo, output, steps, locals>>

NextLoops == CompileLoop

SpecLoops == InitLoops /\ [][NextLoops]_vars

\* the node of the program at a span: a statement and its expression have
\* one span, and the i-th child of a node has the span of the node with i
\* appended, as compile_statement and compile_expression pass it on
Block(body) == [k |-> "Program", body |-> body]
RECURSIVE Child(_, _)
Child(node, i) ==
    CASE node.k = "Program" /\ i \in DOMAIN node.body -> node.body[i]
      [] node.k \in {"ExprStmt", "DebugPrint"} -> Child(node.expr, i)
      [] node.k = "While" /\ i = 1 -> node.cond
      [] node.k = "While" /\ i = 2 -> Block(node.body)
      [] node.k = "If" /\ i = 1 -> node.cond
      [] node.k = "If" /\ i = 2 -> Block(node.body)
      [] node.k = "If" /\ i = 3 -> Block(node.other)
      [] node.k = "Do" /\ i = 1 -> Block(node.body)
      [] node.k = "PointerAssign" /\ i = 3 -> node.value
      [] node.k = "PointerAssign" /\ i # 3 -> Child(node.ptr, i)
      [] node.k = "Infix" /\ i = 1 -> node.left
      [] node.k = "Infix" /\ i = 2 -> node.right
      [] node.k = "Prefix" /\ i = 1 -> node.right
      [] node.k = "Index" /\ i = 1 -> node.callee
      [] node.k = "Index" /\ i = 2 -> node.index
      [] node.k = "SetVar" /\ i = 1 -> node.value
      [] node.k = "Array" /\ i \in DOMAIN node.values -> node.values[i]
      [] OTHER -> [k |-> "Leaf"]
RECURSIVE Descend(_, _)
Descend(node, span) ==
    IF span = <<>> THEN node ELSE Descend(Child(node, Head(span)), Tail(span))
NodeAt(span) == Descend(Block(cur), span)
IsLoop(node) ==
    \/ node.k = "While"
    \/ node.k \in {"ExprStmt", "DebugPrint"} /\ node.expr.k = "While"

\* the spans of the statements of kind k that left code
SpansOf(k) == {vm.lines[u] : u \in {u \in DOMAIN vm.lines : NodeAt(vm.lines[u]).k = k}}

\* the span of the innermost while loop around the statement at span q
Prefix(q, n) == SubSeq(q, 1, n)
LoopDepths(q) == {n \in 1..(Len(q) - 1) : IsLoop(NodeAt(Prefix(q, n)))}
Innermost(q) == Prefix(q, CHOOSE n \in LoopDepths(q) : \A m \in LoopDepths(q) : m <= n)

\* the code units that carry exactly the span p, and the n-th of them
UnitsOf(p) == {u \in DOMAIN vm.lines : vm.lines[u] = p}
Unit(p, n) ==
    CHOOSE u \in UnitsOf(p) : Cardinality({w \in UnitsOf(p) : w < u}) = n - 1

\* the operand of the JUMP a break or a next at span q emitted: the JUMP is
\* the first unit of the statement, the operand the second
JumpTarget(q) == vm.bytecodes[Unit(q, 2)]

\* a while loop at span p emits, with its own span, JUMP_IF_FALSE and its
\* operand, JUMP and loop_start, LOAD_CONST and NULL_CONSTANT
\* (vm_bc.rs 576-578, 586-587, 601-602); addresses count from 0
TrailingNull(p) == Unit(p, 5) - 1
\* the first code unit of the condition, whose spans begin with p and 1
ConditionStart(p) ==
    (CHOOSE u \in DOMAIN vm.lines :
        /\ Len(vm.lines[u]) > Len(p)
        /\ Prefix(vm.lines[u], Len(p) + 1) = Append(p, 1)
        /\ \A w \in 1..(u - 1) : ~(/\ Len(vm.lines[w]) > Len(p)
                                  /\ Prefix(vm.lines[w], Len(p) + 1) = Append(p, 1))) - 1

Compiled == phase = "compiled" /\ ~IsSome(vm.error)

\* C15, as the code has it: after a compile that succeeded, the operand of
\* the JUMP of every break is the address of the LOAD_CONST NULL_CONSTANT
\* that ends the innermost while loop around it, so the null is pushed
\* after a break as it is after a normal exit of the loop
C15_BreakJumpsToTrailingNull ==
    Compiled =>
        \A q \in SpansOf("Break") :
            /\ vm.bytecodes[Unit(q, 1)] = JUMP
            /\ JumpTarget(q) = TrailingNull(Innermost(q))
            /\ vm.bytecodes[JumpTarget(q) + 1] = LOAD_CONST
            /\ vm.bytecodes[JumpTarget(q) + 2] = AsByte(NULL_CONSTANT)

\* C15, as it is stated: the operand of the JUMP of every break is an
\* address past the trailing null push of the loop
C15_BreakJumpsPastTrailingNull ==
    Compiled =>
        \A q \in SpansOf("Break") : JumpTarget(q) >= TrailingNull(Innermost(q)) + 2

\* a loop with a break in an if, a break of its own and an inner loop with a
\* break has been compiled
C15_Witness ==
    /\ Compiled
    /\ cur = <<SExprStmt(EWhile(EBool(TRUE),
                <<SExprStmt(EIf(EBool(TRUE), <<SBreak>>, <<SNext>>)),
                  SExprStmt(EWhile(EBool(FALSE), <<SBreak, SNext>>))>>))>>
    /\ Cardinality(SpansOf("Break")) = 2

\* C16: after a compile that succeeded, the operand of the JUMP of every
\* next is loop_start of the innermost while loop around it, the address of
\* the first code unit of that loop's condition, and the target of a next or
\* a break lies inside the code of the innermost loop around it
C16_NextJumpsToLoopStart ==
    Compiled =>
        /\ \A q \in SpansOf("Next") :
            /\ vm.bytecodes[Unit(q, 1)] = JUMP
            /\ JumpTarget(q) = ConditionStart(Innermost(q))
        /\ \A q \in SpansOf("Next") \cup SpansOf("Break") :
            /\ JumpTarget(q) >= ConditionStart(Innermost(q))
            /\ JumpTarget(q) <= TrailingNull(Innermost(q))

\* an inner loop with a next, inside a loop with a next of its own, has
\* been compiled on a VM whose last compile failed inside a loop body
C16_Witness ==
    /\ Compiled
    /\ vm.next_jump_patches # <<>>
    /\ cur = <<SExprStmt(EWhile(EInfix(EInt(<<1>>), "<", EInt(<<2>>)),
                <<SExprStmt(EWhile(EBool(FALSE), <<SNext, SBreak>>)), SNext>>))>>
    /\ ConditionStart(<<1, 2, 1>>) > ConditionStart(<<1>>)

\* a break or a next that is a statement of the program itself, outside any
\* while body
OutsideLoop(line) ==
    /\ line.ast # None
    /\ \E i \in DOMAIN Unwrap(line.ast) : Unwrap(line.ast)[i].k \in {"Break", "Next"}

\* C17: every compile of a program with a break or a next outside any while
\* body sets a compile error, whatever was compiled on the VM before, and the
\* code of such a program is never executed
C17_BreakOutsideLoopFails ==
    [][/\ (phase = "read" /\ phase' = "compiled" /\ OutsideLoop(Lines[cur]))
            => /\ IsSome(vm'.error)
               /\ Unwrap(vm'.error).stage = "Compile-time"
       /\ phase' = "executing" => ~OutsideLoop(Lines[cur'])]_vars

\* C18: a run of compiled code does not abort, and when it ends, either an
\* error is set or last_popped holds a value
C18_RunEndsDefined ==
    [][phase = "executing"
        => /\ phase' # "aborted"
           /\ phase' = "executed" => (IsSome(vm'.error) \/ IsSome(vm'.last_popped))]_vars

\* the top-level variables the compiler knows, with their slot indices
TopLevel(v) == v.current_compiler.local_map[1]
\* the value in stack position i (from 0) of a VM with the cells H
SlotValue(v, H, i) == Deref(Mem(v.constants, H), v.stack[i + 1])

\* the slot index of a top-level variable never changes
SlotIndexKept ==
    \A n \in DOMAIN TopLevel(vm) :
        n \in DOMAIN TopLevel(vm') /\ TopLevel(vm')[n] = TopLevel(vm)[n]
\* between two invocations every top-level variable has its slot on the stack
SlotsExistAtPrompt ==
    phase = "prompt" => \A n \in DOMAIN TopLevel(vm) : TopLevel(vm)[n] < Len(vm.stack)
\* from the end of an invocation to the first opcode of the next, the value in
\* the slot of a top-level variable stays, and the head of execute removes
\* exactly the entries from position count on
SlotsKeptBetweenRuns ==
    phase # "executing"
        => /\ \A n \in DOMAIN TopLevel(vm) :
                TopLevel(vm)[n] < Len(vm.stack)
                    => /\ TopLevel(vm)[n] < Len(vm'.stack)
                       /\ SlotValue(vm', heap', TopLevel(vm)[n])
                            = SlotValue(vm, heap, TopLevel(vm)[n])
           /\ \A i \in 1..Len(vm.stack) :
                i <= vm.current_compiler.count
                    => i <= Len(vm'.stack) /\ vm'.stack[i] = vm.stack[i]
           /\ Len(vm'.stack) <= Len(vm.stack)
           /\ phase' = "executing" => Len(vm'.stack) <= vm.current_compiler.count

\* C19: in a REPL session every top-level variable keeps its slot index, has
\* its slot on the stack between two invocations, and holds at the start of
\* an invocation the value it held at the end of the one before; the head of
\* execute removes only the entries above the compiler's local count
C19_TopLevelSlotsPersist ==
    [][SlotIndexKept /\ SlotsExistAtPrompt /\ SlotsKeptBetweenRuns]_vars

\* the integer literals of the line read that left code: [span, val] with
\* val the value str::parse::<i64> gives
IntLiteral(node) ==
    IF node.k = "Int" THEN Some(node)
    ELSE IF node.k \in {"ExprStmt", "DebugPrint"} /\ node.expr.k = "Int"
    THEN Some(node.expr)
    ELSE None
LiteralAt(span) == IntLiteral(Descend(Block(Unwrap(Lines[cur].ast)), span))
LiteralSpans ==
    {vm.lines[u] : u \in {u \in DOMAIN vm.lines : IsSome(LiteralAt(vm.lines[u]))}}
LiteralValue(span) == Unwrap(ParseI64(Unwrap(LiteralAt(span)).value))

\* in the code of a compile that succeeded, every integer literal is a
\* LOAD_CONST whose operand is the index constant_hash_int has for its value,
\* not below 3
LiteralsShareIndex ==
    Compiled =>
        \A p \in LiteralSpans :
            /\ vm.bytecodes[Unit(p, 1)] = LOAD_CONST
            /\ LiteralValue(p) \in DOMAIN vm.constant_hash_int
            /\ vm.bytecodes[Unit(p, 2)] = vm.constant_hash_int[LiteralValue(p)]
            /\ vm.bytecodes[Unit(p, 2)] > NULL_CONSTANT
\* the index of a value never changes and lies above the three fixed entries
IndexKept ==
    \A v \in DOMAIN vm.constant_hash_int :
        /\ v \in DOMAIN vm'.constant_hash_int
        /\ vm'.constant_hash_int[v] = vm.constant_hash_int[v]
        /\ vm.constant_hash_int[v] > NULL_CONSTANT
\* no two entries of the pool are Int entries with one value
OneEntryPerValue ==
    \A i, j \in DOMAIN vm.constants :
        (i # j /\ vm.constants[i].t = "Int") => vm.constants[i] # vm.constants[j]

\* C20: across the compiles of a session every occurrence of an integer
\* literal is a LOAD_CONST of the one index its value has, the pool holds at
\* most one Int entry for a value, and no literal has index 0, 1 or 2
C20_IntLiteralsShareOneEntry ==
    [][IndexKept /\ LiteralsShareIndex' /\ OneEntryPerValue']_vars

(***************************************************************************)
(* Limits: compile_program (vm_bc.rs 197-204) near the end of the address  *)
(* range of a code unit and near the capacity of the constant pool.  The   *)
(* program starts with strings statements `""` followed by statements      *)
(* `true`; the loop of compile_program has compiled these and goes on with *)
(* the statements in cur.  Here steps counts the statements compiled.      *)
(***************************************************************************)
LongProgram(n, strings) ==
    [i \in 1..n |-> IF i <= strings THEN SExprStmt(EString(<<>>))
                    ELSE SExprStmt(EBool(TRUE))]

\* the VM after the first n statements: each is LOAD_CONST, index, POP_LAST,
\* and each string is a new entry of the pool
LongCode(n, strings) ==
    [VMDefault EXCEPT
        !.repl_mode = TRUE,
        !.bytecodes = [j \in 1..(3 * n) |->
            CASE j % 3 = 1 -> LOAD_CONST
              [] j % 3 = 2 -> IF (j + 2) \div 3 <= strings
                              THEN NULL_CONSTANT + (j + 2) \div 3
                              ELSE BOOL_TRUE_CONSTANT
              [] j % 3 = 0 -> POP_LAST],
        !.lines = [j \in 1..(3 * n) |-> <<(j + 2) \div 3>>],
        !.constants = @ \o [i \in 1..strings |-> VString(<<>>)]]

\* the closed form is what compile gives
LongAgrees ==
    \A n \in 0..3 : \A strings \in 0..n :
        LongCode(n, strings) =
            compile([VMDefault EXCEPT !.repl_mode = TRUE], LongProgram(n, strings)).vm

\* the number of statements of three code units that fill the address range,
\* and the number of strings that fill the pool
CodeStatements == (2 ^ ByteBits) \div 3
PoolStrings == CONSTANT_SIZE - 3
\* how far from these the program compiled so far is
Near == 4

LimitStatements ==
    {SExprStmt(EIf(EBool(TRUE), <<SExprStmt(EBool(TRUE))>>, <<>>)),
     SExprStmt(EWhile(EBool(TRUE), <<SBreak, SNext>>)),
     SExprStmt(EInfix(EBool(TRUE), "||", EBool(TRUE))),
     SExprStmt(EInfix(EBool(TRUE), "&&", EBool(TRUE))),
     SExprStmt(EString(<<"a">>)),
     SExprStmt(EInt(<<1>>))}

InitLimits ==
    /\ LongAgrees
    /\ \E n \in (CodeStatements - Near)..(CodeStatements + 1) \cup (PoolStrings - Near)..PoolStrings :
          /\ vm = LongCode(n, IF n <= PoolStrings THEN n ELSE 0)
          /\ steps = n
    /\ cur \in [1..1 -> LimitStatements] \cup [1..2 -> LimitStatements]
    /\ heap = <<>>
    /\ allocations = <<>>
    /\ phase = "compiling"
    /\ lineNo = 1
    /\ output = <<>>
    /\ crashed = FALSE
    /\ locals = {}

\* one turn of the loop of compile_program: `if !self.compile_statement(stmt)
\* { return false; }`
CompileStatement ==
    /\ phase = "compiling"
    /\ cur # <<>>
    /\ LET r == compile_statement(vm, Head(cur), <<steps + 1>>) IN
       /\ vm' = r.vm
       /\ crashed' = r.panic
       /\ cur' = IF r.ok THEN Tail(cur) ELSE <<>>
       /\ phase' = IF r.panic THEN "aborted"
                   ELSE IF r.ok /\ Tail(cur) # <<>> THEN "compiling" ELSE "compiled"
    /\ steps' = steps + 1
    /\ UNCHANGED <<heap, allocations, lineNo, output, locals>>

NextLimits == CompileStatement

SpecLimits == InitLimits /\ [][NextLimits]_vars

\* the addresses of the opcodes of the code from address i on, as the loop of
\* execute reads them
WithOperand ==
    {REPLACE, LOAD_CONST, LOAD_LOCAL, MAKE_ARRAY, JUMP_IF_FALSE, JUMP_IF_FALSE_NO_POP, JUMP}
RECURSIVE OpcodesFrom(_, _)
OpcodesFrom(bytecodes, i) ==
    IF i >= Len(bytecodes) THEN {}
    ELSE {i} \cup OpcodesFrom(bytecodes,
                              i + (IF bytecodes[i + 1] \in WithOperand THEN 2 ELSE 1))

\* the code of the statement compiled in this step holds no jump whose operand
\* lies outside the statement, as a wrapped address does
JumpsStayInStatement ==
    \A u \in OpcodesFrom(vm'.bytecodes, Len(vm.bytecodes)) :
        vm'.bytecodes[u + 1] \in {JUMP, JUMP_IF_FALSE, JUMP_IF_FALSE_NO_POP}
            => /\ vm'.bytecodes[u + 2] >= Len(vm.bytecodes)
               /\ vm'.bytecodes[u + 2] <= Len(vm'.bytecodes)
\* every LOAD_CONST of the statement names an entry of the pool, and the pool
\* stays within its capacity
LoadsStayInPool ==
    /\ Len(vm'.constants) <= CONSTANT_SIZE
    /\ \A u \in OpcodesFrom(vm'.bytecodes, Len(vm.bytecodes)) :
        vm'.bytecodes[u + 1] = LOAD_CONST => vm'.bytecodes[u + 2] < Len(vm'.constants)
\* a compile error with the span of the statement or of a part of it
LocatedError ==
    /\ IsSome(vm'.error)
    /\ Unwrap(vm'.error).stage = "Compile-time"
    /\ Len(Unwrap(vm'.error).span) >= 1
    /\ Unwrap(vm'.error).span[1] = steps + 1

\* C21: the compile of a statement either sets a located compile error or
\* leaves code in which every jump operand is an address inside the statement
\* (none is a wrapped address) and every LOAD_CONST operand is an index of
\* the pool, which holds at most CONSTANT_SIZE entries
C21_NoWrappedAddress ==
    [][phase = "compiling"
        => \/ LocatedError
           \/ ~IsSome(vm'.error) /\ JumpsStayInStatement /\ LoadsStayInPool]_vars

(***************************************************************************)
(* Errors: the loop of compile_program on programs whose statements fail   *)
(* to compile, some of them inside an array literal.                       *)
(***************************************************************************)
MaxStatements == 3

ErrorStatements ==
    {SExprStmt(EGetVar("zz")),
     SExprStmt(EArray(<<EGetVar("zz")>>)),
     SExprStmt(EArray(<<EGetVar("zz"), EGetVar("yy")>>)),
     SExprStmt(EArray(<<EInt(<<1>>), EGetVar("zz")>>)),
     SExprStmt(EInt(<<1>>)),
     SExprStmt(ESetVar("x", EInt(<<1>>)))}

InitErrors ==
    /\ vm = [VMDefault EXCEPT !.repl_mode = TRUE]
    /\ steps = 0
    /\ cur \in UNION {[1..n -> ErrorStatements] : n \in 1..MaxStatements}
    /\ heap = <<>>
    /\ allocations = <<>>
    /\ phase = "compiling"
    /\ lineNo = 1
    /\ output = <<>>
    /\ crashed = FALSE
    /\ locals = {}

NextErrors == CompileStatement

SpecErrors == InitErrors /\ [][NextErrors]_vars

\* C22: once the compile error is set, no step of compile appends a code
\* unit or replaces the error: the loop of compile_program has stopped
C22_ErrorStopsEmission ==
    [][IsSome(vm.error)
        => vm'.bytecodes = vm.bytecodes /\ vm'.error = vm.error]_vars

\* ---------------------------------------------------------------------
\* The frame-based VM (src/src/glacier_vm).  In the specifications of this
\* part `vm` holds the frame-based VM, `cur` the instructions handed to
\* run(), `steps` the index of the next instruction, `lineNo` the number
\* of calls made on the VM so far, and `phase` is "running" inside run()
\* and "idle" between calls.  Heap locations count from 1.
\* ---------------------------------------------------------------------

Boolean(b) == [t |-> "Boolean", b |-> b]

Push(x) == [i |-> "Push", v |-> x]
Pop == [i |-> "Pop"]
Var(x) == [i |-> "Var", x |-> x]
MoveVar(name) == [i |-> "MoveVar", x |-> name]
MoveLastToStack == [i |-> "MoveLastToStack"]
BinaryOperator(x) == [i |-> "BinaryOperator", x |-> x]

value_type(v) == v.t

is_truthy_value(v) ==
    CASE v.t = "Int" -> v.i # 0
      [] v.t = "Boolean" -> v.b
      [] v.t = "Null" -> FALSE
      [] OTHER -> TRUE

try_convert(v, into) ==
    IF value_type(v) = into THEN [r |-> "SameType"]
    ELSE CASE v.t = "Int" /\ into = "BigInt" ->
                [r |-> "Ok", v |-> [t |-> "BigInt", i |-> v.i]]
           [] v.t = "Int" /\ into = "Boolean" ->
                [r |-> "Ok", v |-> Boolean(v.i # 0)]
           [] v.t = "Boolean" /\ into = "Int" ->
                [r |-> "Ok", v |-> VInt(IF v.b THEN 1 ELSE 0)]
           [] OTHER -> [r |-> "NotOk"]

ApplyOk(v) == [r |-> "Ok", v |-> v]
NoSuchOperator == [r |-> "NoSuchOperator"]

\* the four comparison arms of Value::Int: ">" tests i > x, "<" tests
\* i <= x (operators.rs 141 and 145), ">=" tests i >= x, "<=" tests i <= x
int_compare(i, name, x) ==
    CASE name = ">" -> i > x
      [] name = "<" -> i <= x
      [] name = ">=" -> i >= x
      [] name = "<=" -> i <= x

apply_operator(self_, name, other) ==
    CASE name = "==" -> ApplyOk(Boolean(self_ = other))
      [] name = "!=" -> ApplyOk(Boolean(self_ # other))
      [] name = "||" -> ApplyOk(Boolean(is_truthy_value(self_) \/ is_truthy_value(other)))
      [] name = "&&" -> ApplyOk(Boolean(is_truthy_value(self_) /\ is_truthy_value(other)))
      [] OTHER ->
           IF self_.t = "Int" /\ name \in {">", "<", ">=", "<="}
           THEN LET other_int_try == try_convert(other, "Int") IN
                CASE other_int_try.r = "Ok" ->
                       ApplyOk(Boolean(int_compare(self_.i, name, other_int_try.v.i)))
                  [] other_int_try.r = "NotOk" -> NoSuchOperator
                  [] other_int_try.r = "SameType" ->
                       ApplyOk(Boolean(int_compare(self_.i, name, other.i)))
           ELSE NoSuchOperator

NoNames == [n \in {} |-> 0]

FrameVMDefault ==
    [heap |-> [value |-> <<>>, available |-> <<>>],
     stack |-> <<>>,
     variables |-> <<[map |-> NoNames, index |-> 0]>>,
     last_popped |-> None,
     last_push_location |-> None,
     error |-> None,
     use_reference |-> FALSE]

\* Heap::push: the value goes to the back; the result is its location
heap_push(h, val) ==
    [h |-> [h EXCEPT !.value = Append(@, val)],
     loc |-> Len(h.value) + 1,
     panic |-> FALSE]

\* a faulty push_free that never looks at the free list
heap_push_free_appends(h, val) == heap_push(h, val)

\* Heap::push_free: the last free location is taken when there is one;
\* self.value[x] aborts when x lies beyond the vector
heap_push_free(h, val) ==
    IF h.available # <<>>
    THEN LET x == h.available[Len(h.available)] IN
         IF x \in 1..Len(h.value)
         THEN [h |-> [h EXCEPT !.value[x] = val,
                               !.available = SubSeq(@, 1, Len(@) - 1)],
               loc |-> x, panic |-> FALSE]
         ELSE [h |-> [h EXCEPT !.available = SubSeq(@, 1, Len(@) - 1)],
               loc |-> x, panic |-> TRUE]
    ELSE heap_push(h, val)

heap_release(h, pos) == [h EXCEPT !.available = Append(@, pos)]

\* VariableMap::get: the maps are searched from the innermost outwards
RECURSIVE variables_get(_, _, _)
variables_get(maps, index, key) ==
    IF index = 0 THEN None
    ELSE IF key \in DOMAIN maps[index].map
         THEN Some(maps[index].map[key])
         ELSE variables_get(maps, index - 1, key)

\* a faulty insert that binds the name in the outermost map
variables_insert_outermost(maps, key, value) ==
    [maps EXCEPT ![1].map =
        [n \in DOMAIN @ \cup {key} |-> IF n = key THEN value ELSE @[n]]]

variables_insert(maps, key, value) ==
    [maps EXCEPT ![Len(maps)].map =
        [n \in DOMAIN @ \cup {key} |-> IF n = key THEN value ELSE @[n]]]

add_child(maps, location) ==
    Append(maps, [map |-> NoNames, index |-> location])

vm_push(v, value) ==
    LET r == heap_push(v.heap, value) IN
    [v EXCEPT !.heap = r.h, !.last_push_location = Some(r.loc)]

define_variable(v, name) ==
    [v EXCEPT !.variables =
        variables_insert(@, name, v.last_push_location[1])]

Builtins == {"print", "get", "true", "false", "null", "Vec"}

\* get_variable for a name that is no builtin: the cell the name is
\* bound to, None for an unbound name
get_variable(v, name) ==
    LET res == variables_get(v.variables, Len(v.variables), name) IN
    IF IsSome(res) /\ res[1] \in 1..Len(v.heap.value)
    THEN Some(v.heap.value[res[1]]) ELSE None

new_frame(v, index) ==
    [v EXCEPT !.last_popped = None, !.variables = add_child(@, index)]

\* exit_frame with use_reference = false: the innermost map is popped and
\* every location it holds is released, in the order the HashMap yields
\* them, which `order` stands for
RECURSIVE release_all(_, _)
release_all(h, order) ==
    IF order = <<>> THEN h
    ELSE release_all(heap_release(h, Head(order)), Tail(order))

exit_frame(v, order) ==
    [v EXCEPT !.variables = SubSeq(@, 1, Len(@) - 1),
              !.heap = IF v.use_reference THEN @ ELSE release_all(@, order)]

\* the orders in which the entries of a map can be visited
Orders(m) ==
    {o \in [1..Cardinality(DOMAIN m) -> DOMAIN m] :
        \A i, j \in DOMAIN o : i # j => o[i] # o[j]}

Instr == cur[steps + 1]

\* the end of one turn of the loop of run_with_start: index += 1, and the
\* loop ends when the index reaches the length or the arm returned
Advance(halt) ==
    /\ steps' = steps + 1
    /\ phase' = IF halt \/ steps + 1 >= Len(cur) THEN "idle" ELSE "running"
    /\ UNCHANGED <<heap, allocations, cur, lineNo, output, locals>>

Running(kind) == phase = "running" /\ ~crashed /\ Instr.i = kind

RunPush ==
    /\ Running("Push")
    /\ LET next_is_var == steps + 2 <= Len(cur) /\ cur[steps + 2].i = "Var"
           r == IF next_is_var THEN heap_push_free(vm.heap, Instr.v)
                ELSE heap_push(vm.heap, Instr.v) IN
       /\ vm' = [vm EXCEPT !.heap = r.h, !.last_push_location = Some(r.loc)]
       /\ crashed' = r.panic
    /\ Advance(FALSE)

RunPop ==
    /\ Running("Pop")
    /\ IF vm.heap.value = <<>>
       THEN vm' = vm /\ crashed' = TRUE
       ELSE /\ vm' = [vm EXCEPT
                 !.last_popped = Some(vm.heap.value[Len(vm.heap.value)]),
                 !.heap.value = SubSeq(@, 1, Len(@) - 1)]
            /\ crashed' = FALSE
    /\ Advance(FALSE)

RunVar ==
    /\ Running("Var")
    /\ IF IsSome(vm.last_push_location)
       THEN vm' = define_variable(vm, Instr.x) /\ crashed' = FALSE
       ELSE vm' = vm /\ crashed' = TRUE
    /\ Advance(FALSE)

RunMoveVar ==
    /\ Running("MoveVar")
    /\ Instr.x \notin Builtins
    /\ ~vm.use_reference
    /\ LET m == get_variable(vm, Instr.x) IN
       /\ vm' = IF IsSome(m) THEN vm_push(vm, m[1])
                ELSE [vm EXCEPT !.error =
                        Some([e |-> "UndefinedVariable", name |-> Instr.x])]
       /\ Advance(~IsSome(m))
    /\ crashed' = FALSE

RunMoveLastToStack ==
    /\ Running("MoveLastToStack")
    /\ IF vm.heap.value = <<>>
       THEN vm' = vm /\ crashed' = TRUE
       ELSE /\ vm' = [vm EXCEPT
                 !.stack = Append(@, vm.heap.value[Len(vm.heap.value)]),
                 !.heap.value = SubSeq(@, 1, Len(@) - 1)]
            /\ crashed' = FALSE
    /\ Advance(FALSE)

RunBinaryOperator ==
    /\ Running("BinaryOperator")
    /\ IF Len(vm.stack) < 2
       THEN vm' = vm /\ crashed' = TRUE /\ Advance(FALSE)
       ELSE LET a == vm.stack[Len(vm.stack)]
                b == vm.stack[Len(vm.stack) - 1]
                res == apply_operator(b, Instr.x, a)
                popped == [vm EXCEPT !.stack = SubSeq(@, 1, Len(@) - 2)] IN
            /\ vm' = IF res.r = "Ok" THEN vm_push(popped, res.v)
                     ELSE [popped EXCEPT !.error =
                             Some([e |-> "InvalidBinaryOperation",
                                   b |-> b, x |-> Instr.x, a |-> a])]
            /\ crashed' = FALSE
            /\ Advance(res.r # "Ok")

\* the stream of tests::binop: b x a
BinopStream(b, x, a) ==
    <<Push(b), MoveLastToStack, Push(a), MoveLastToStack,
      BinaryOperator(x), Pop>>

MaxOperand == 3

Operands ==
    {VInt(i) : i \in (-MaxOperand..MaxOperand) \cup {I64Min, I64Max}}
        \cup {Boolean(FALSE), Boolean(TRUE), VNull}

OperatorNames == {">", "<", ">=", "<=", "==", "!=", "^"}

InitOperators ==
    /\ vm = FrameVMDefault
    /\ \E b \in Operands, a \in Operands, x \in OperatorNames :
          cur = BinopStream(b, x, a)
    /\ steps = 0
    /\ phase = "running"
    /\ lineNo = 1
    /\ heap = <<>>
    /\ allocations = <<>>
    /\ output = <<>>
    /\ crashed = FALSE
    /\ locals = {}

NextOperators ==
    \/ RunPush
    \/ RunMoveLastToStack
    \/ RunBinaryOperator
    \/ RunPop

SpecOperators == InitOperators /\ [][NextOperators]_vars

\* the comparison the run in `cur` has finished, when both operands are Int
ComparedInts(x) ==
    /\ phase = "idle"
    /\ steps = Len(cur)
    /\ cur[5].x = x
    /\ cur[1].v.t = "Int"
    /\ cur[3].v.t = "Int"

\* the Boolean a comparison of the bytecode VM allocates
Compared(res) == IF res.kind = "Ok" THEN Some(Deref(res.M, res.p)) ELSE None

\* C23: in each operator module `a < b` on two Ints is true exactly when a
\* is strictly less than b and `a <= b` exactly when a is less than or
\* equal to b: in apply_operator of the frame-based VM, run on the stream
\* b x a, and in Value::binary_lt and Value::binary_le of the bytecode VM
C23_LessIsStrict ==
    /\ ComparedInts("<") =>
          vm.last_popped = Some(Boolean(cur[1].v.i < cur[3].v.i))
    /\ ComparedInts("<=") =>
          vm.last_popped = Some(Boolean(cur[1].v.i <= cur[3].v.i))
    /\ cur[1].v.t = "Int" /\ cur[3].v.t = "Int" =>
          /\ Compared(binary_lt(Mem(<<>>, <<>>), cur[1].v, cur[3].v))
                = Some(VBool(cur[1].v.i < cur[3].v.i))
          /\ Compared(binary_le(Mem(<<>>, <<>>), cur[1].v, cur[3].v))
                = Some(VBool(cur[1].v.i <= cur[3].v.i))

\* ---------------------------------------------------------------------
\* Int arithmetic of the bytecode VM.  The loop of execute is entered with
\* two Int operands l and r in the cells 1 and 2, both on the stack, and
\* one arithmetic opcode as the code; Step applies the opcode.
\* ---------------------------------------------------------------------

ArithInts ==
    {i \in I64Min..I64Max :
        \/ i <= I64Min + MaxOperand
        \/ -MaxOperand <= i /\ i <= MaxOperand
        \/ i >= I64Max - MaxOperand}

ArithOpcodes ==
    {BINARY_ADD, BINARY_SUB, BINARY_MUL, BINARY_DIV, BINARY_MOD, UNARY_NEG}

InitArith ==
    /\ \E bc \in ArithOpcodes :
          vm = [VMDefault EXCEPT !.repl_mode = TRUE,
                                 !.bytecodes = <<bc>>,
                                 !.lines = <<<<1>>>>,
                                 !.stack = <<1, 2>>]
    /\ \E l \in ArithInts, r \in ArithInts : heap = <<VInt(l), VInt(r)>>
    /\ allocations = allocated(<<>>, 0, 2)
    /\ phase = "executing"
    /\ cur = 1
    /\ lineNo = 1
    /\ output = <<>>
    /\ crashed = FALSE
    /\ steps = 0
    /\ locals = {}

NextArith ==
    \/ Step
    \/ ExecuteReturn

SpecArith == InitArith /\ [][NextArith]_vars

\* the opcode bc has been applied to the operands l = heap[1], r = heap[2]
Applied(bc) == vm.bytecodes = <<bc>> /\ steps > 0

\* the arm pushed a result and set no error
Succeeded == ~crashed /\ ~IsSome(vm.error) /\ vm.stack # <<>>

ArithResult == heap[vm.stack[Len(vm.stack)]]

Multiples(r) == {k * r : k \in -(2 ^ IntBits)..(2 ^ IntBits)}

\* C24: for every Int l and non-zero Int r, binary_mod(l, r) does not fail
\* and returns the floored modulo m: m is zero or has the sign of r,
\* |m| < |r|, and l - m is a multiple of r
C24_ModIsFloored ==
    Applied(BINARY_MOD) /\ heap[2].i # 0 =>
        /\ Succeeded
        /\ ArithResult.t = "Int"
        /\ LET m == ArithResult.i
               l == heap[1].i
               r == heap[2].i IN
           /\ m = 0 \/ (m < 0) = (r < 0)
           /\ (IF m < 0 THEN -m ELSE m) < (IF r < 0 THEN -r ELSE r)
           /\ l - m \in Multiples(r)

\* C25: Int + Int, Int - Int and Int * Int return the result reduced modulo
\* 2^64, Int / Int with a non-zero divisor does not fail, the only failure
\* of Int arithmetic is a zero divisor of / or %, and unary - of the least
\* Int is the greatest Int
C25_IntArithmeticWraps ==
    /\ Applied(BINARY_ADD) =>
          Succeeded /\ ArithResult = VInt(Wrap64(heap[1].i + heap[2].i))
    /\ Applied(BINARY_SUB) =>
          Succeeded /\ ArithResult = VInt(Wrap64(heap[1].i - heap[2].i))
    /\ Applied(BINARY_MUL) =>
          Succeeded /\ ArithResult = VInt(Wrap64(heap[1].i * heap[2].i))
    /\ Applied(BINARY_DIV) /\ heap[2].i # 0 => Succeeded
    /\ steps > 0 /\ ~Succeeded =>
          vm.bytecodes[1] \in {BINARY_DIV, BINARY_MOD} /\ heap[2].i = 0
    /\ Applied(UNARY_NEG) /\ heap[2].i = I64Min =>
          Succeeded /\ ArithResult = VInt(I64Max)

\* ---------------------------------------------------------------------
\* Array literals.  The program in `cur` is `a = 0; i = 1; s` for a final
\* expression statement s built on an array literal of up to MaxElements
\* elements; it goes through compile, optimize and execute as a line of
\* the prompt does.
\* ---------------------------------------------------------------------

MaxElements == 4

ArrayElements ==
    {EInt(<<1, 0>>), EInt(<<2, 0>>), EGetVar("i"), ESetVar("b", EInt(<<5>>))}

ArrayLiterals ==
    {EArray(values) :
        values \in UNION {[1..n -> ArrayElements] : n \in 0..MaxElements}}

MinusOne == EPrefix("-", EInt(<<1>>))

\* the final statements on the literal arr: arr, arr[0], arr[i], and the
\* repetitions arr * 0, arr ** 0, arr * -1, arr ** -1
ArrayFinals(arr) ==
    {arr,
     EIndex(arr, EInt(<<0>>)),
     EIndex(arr, EGetVar("i")),
     EInfix(arr, "*", EInt(<<0>>)),
     EInfix(arr, "**", EInt(<<0>>)),
     EInfix(arr, "*", MinusOne),
     EInfix(arr, "**", MinusOne)}

ArrayPrograms ==
    {<<SExprStmt(ESetVar("a", EInt(<<0>>))),
       SExprStmt(ESetVar("i", EInt(<<1>>))),
       SExprStmt(final)>> :
        final \in UNION {ArrayFinals(arr) : arr \in ArrayLiterals}}

InitArrays ==
    /\ vm = [VMDefault EXCEPT !.repl_mode = TRUE]
    /\ cur \in ArrayPrograms
    /\ heap = <<>>
    /\ allocations = <<>>
    /\ phase = "read"
    /\ lineNo = 1
    /\ output = <<>>
    /\ crashed = FALSE
    /\ steps = 0
    /\ locals = {}

NextArrays ==
    \/ CompileLoop
    \/ ReportCompileError
    \/ Optimize
    \/ ExecuteBegin
    \/ Step
    \/ ExecuteReturn

SpecArrays == InitArrays /\ [][NextArrays]_vars

\* the final expression of the program and the literal it is built on
Final == cur[Len(cur)].expr
FinalLiteral ==
    CASE Final.k = "Array" -> Final
      [] Final.k = "Index" -> Final.callee
      [] Final.k = "Infix" -> Final.left

\* the value of an element expression after `a = 0; i = 1`
RECURSIVE ElementValue(_)
ElementValue(e) ==
    CASE e.k = "Int" -> VInt(Unwrap(ParseI64(e.value)))
      [] e.k = "SetVar" -> ElementValue(e.value)
      [] e.k = "GetVar" /\ e.name = "a" -> VInt(0)
      [] e.k = "GetVar" /\ e.name = "i" -> VInt(1)

\* the run of the program is over: execute returned, the process aborted,
\* or the compile error was reported
Settled == phase \in {"executed", "aborted", "prompt"}

Memory == Mem(vm.constants, heap)

\* the value the final statement left in last_popped
LastValue ==
    IF IsSome(vm.last_popped) THEN Some(Deref(Memory, Unwrap(vm.last_popped)))
    ELSE None

\* last_popped is an Array holding the values of the sequence es in order
IsArrayOf(es) ==
    /\ IsSome(LastValue)
    /\ Unwrap(LastValue).t = "Array"
    /\ Len(Unwrap(LastValue).a) = Len(es)
    /\ \A j \in 1..Len(es) :
          Deref(Memory, Unwrap(LastValue).a[j]) = ElementValue(es[j])

\* the stack holds the slots of a and i, and above them at most the slot
\* of a local an element assigned
StackBelowKept ==
    /\ Len(vm.stack) \in {2, 3}
    /\ Deref(Memory, vm.stack[1]) = VInt(0)
    /\ Deref(Memory, vm.stack[2]) = VInt(1)

\* C26: the code of an array literal of n elements pushes one Array of
\* length n whose element i is the value of the i-th element expression,
\* so that indexing the literal with k < n gives the value of element k,
\* and leaves the stack below the array as it was
C26_ArrayLiteralInOrder ==
    /\ Settled /\ Final.k = "Array" =>
          /\ phase = "executed"
          /\ ~IsSome(vm.error)
          /\ IsArrayOf(Final.values)
          /\ StackBelowKept
    /\ Settled /\ Final.k = "Index" =>
          LET n == Len(FinalLiteral.values)
              k == ElementValue(Final.index).i IN
          k < n =>
             /\ phase = "executed"
             /\ ~IsSome(vm.error)
             /\ LastValue = Some(ElementValue(FinalLiteral.values[k + 1]))
             /\ StackBelowKept

\* C27: arr * 0 and arr ** 0 yield an empty array without error, and
\* arr * -1 and arr ** -1 fail with the error of a negative repeat count,
\* for the operators as compiled and executed
C27_RepeatByZeroIsEmpty ==
    Settled /\ Final.k = "Infix" =>
        IF Final.right = MinusOne
        THEN /\ phase = "executed"
             /\ IsSome(vm.error)
             /\ Unwrap(vm.error).stage = "Runtime"
        ELSE /\ phase = "executed"
             /\ ~IsSome(vm.error)
             /\ IsArrayOf(<<>>)

\* ---------------------------------------------------------------------
\* Frames of the frame-based VM.  The calls made on the VM are run() on
\* one of the streams of tests::variables and tests::frames (an
\* assignment `Push v, Var n`, a read `MoveVar n, Pop`), on an expression
\* statement `Push v, Pop`, new_frame() and exit_frame().
\* ---------------------------------------------------------------------

MaxCalls == 5

FrameNames == {"abc", "xyz", "ii"}
FrameValues == {VInt(1), VInt(2)}

FramePrograms ==
    {<<Push(v), Var(n)>> : v \in FrameValues, n \in FrameNames}
        \cup {<<MoveVar(n), Pop>> : n \in FrameNames}
        \cup {<<Push(v), Pop>> : v \in FrameValues}

InitFrames ==
    /\ vm = FrameVMDefault
    /\ cur = <<>>
    /\ steps = 0
    /\ phase = "idle"
    /\ lineNo = 0
    /\ heap = <<>>
    /\ allocations = <<>>
    /\ output = <<>>
    /\ crashed = FALSE
    /\ locals = {}

Idle == phase = "idle" /\ ~crashed

\* vm.run(instructions) is entered
Run ==
    /\ Idle
    /\ lineNo < MaxCalls
    /\ cur' \in FramePrograms
    /\ steps' = 0
    /\ phase' = "running"
    /\ lineNo' = lineNo + 1
    /\ UNCHANGED <<vm, heap, allocations, output, crashed, locals>>

NewFrame ==
    /\ Idle
    /\ lineNo < MaxCalls
    /\ vm' = new_frame(vm, 0)
    /\ lineNo' = lineNo + 1
    /\ UNCHANGED <<heap, allocations, phase, cur, output, crashed, steps, locals>>

\* exit_frame() as Ret calls it: not on the outermost map
ExitFrame ==
    /\ Idle
    /\ lineNo < MaxCalls
    /\ Len(vm.variables) > 1
    /\ LET m == vm.variables[Len(vm.variables)].map IN
       \E o \in Orders(m) :
          vm' = exit_frame(vm, [j \in DOMAIN o |-> m[o[j]]])
    /\ lineNo' = lineNo + 1
    /\ UNCHANGED <<heap, allocations, phase, cur, output, crashed, steps, locals>>

NextFrames ==
    \/ Run
    \/ NewFrame
    \/ ExitFrame
    \/ RunPush
    \/ RunVar
    \/ RunMoveVar
    \/ RunPop

SpecFrames == InitFrames /\ [][NextFrames]_vars

\* what the name n resolves to in the VM v through the k outermost maps
ResolvedIn(v, k, n) ==
    LET res == variables_get(v.variables, k, n) IN
    IF IsSome(res) /\ res[1] \in 1..Len(v.heap.value)
    THEN Some(v.heap.value[res[1]]) ELSE None

Exits == Len(vm'.variables) < Len(vm.variables)

Executing(kind) == phase = "running" /\ cur[steps + 1].i = kind

\* C28: nothing done inside a frame changes what a name resolves to in the
\* scopes around it; after exit_frame() every name resolves to what it
\* resolved to in the scopes around the exited frame, so a name first
\* defined in that frame is undefined again; and MoveVar on an undefined
\* name sets UndefinedVariable(name) and ends the run
C28_FrameShadowsUntilExit ==
    [][/\ \A n \in FrameNames : \A k \in 1..(Len(vm.variables) - 1) :
             k <= Len(vm'.variables) =>
                ResolvedIn(vm', k, n) = ResolvedIn(vm, k, n)
       /\ Exits =>
             \A n \in FrameNames :
                get_variable(vm', n) = ResolvedIn(vm, Len(vm.variables) - 1, n)
       /\ Executing("MoveVar") /\ get_variable(vm, cur[steps + 1].x) = None =>
             /\ vm'.error = Some([e |-> "UndefinedVariable",
                                  name |-> cur[steps + 1].x])
             /\ phase' = "idle"
             /\ vm'.heap = vm.heap]_vars

\* abc was assigned 1, then 2 inside a frame; the frame is left, its cell
\* is free, and the read of abc gave 1
C28_Witness ==
    /\ phase = "idle"
    /\ Len(vm.variables) = 1
    /\ Len(vm.heap.available) = 1
    /\ vm.heap.value[vm.heap.available[1]] = VInt(2)
    /\ get_variable(vm, "abc") = Some(VInt(1))
    /\ vm.last_popped = Some(VInt(1))
    /\ cur = <<MoveVar("abc"), Pop>>
    /\ steps = 2

\* C29: with use_reference = false, exit_frame() adds one free-list entry
\* per name of the exited frame; a Push followed by Var takes a free cell
\* when there is one, so the free list loses one entry and the heap keeps
\* its length; any other Push appends to the heap
C29_FreeListReuse ==
    [][/\ Exits =>
             Len(vm'.heap.available) = Len(vm.heap.available)
                + Cardinality(DOMAIN vm.variables[Len(vm.variables)].map)
       /\ Executing("Push") =>
             IF /\ steps + 2 <= Len(cur)
                /\ cur[steps + 2].i = "Var"
                /\ vm.heap.available # <<>>
             THEN /\ ~crashed'
                  /\ Len(vm'.heap.available) = Len(vm.heap.available) - 1
                  /\ Len(vm'.heap.value) = Len(vm.heap.value)
                  /\ \E j \in DOMAIN vm.heap.available :
                        /\ vm'.last_push_location = Some(vm.heap.available[j])
                        /\ vm'.heap.value[vm.heap.available[j]] = cur[steps + 1].v
             ELSE /\ vm'.heap.value = Append(vm.heap.value, cur[steps + 1].v)
                  /\ vm'.heap.available = vm.heap.available]_vars

\* a frame defined abc and xyz and was left, and the Push of `ii = 1` has
\* taken one of the two free cells
C29_Witness ==
    /\ phase = "running"
    /\ steps = 1
    /\ cur[2] = Var("ii")
    /\ Len(vm.variables) = 1
    /\ Len(vm.heap.value) = 2
    /\ Len(vm.heap.available) = 1

\* ---------------------------------------------------------------------
\* The peephole pass.  execute() is run to its end on the code compile()
\* left and on the code optimize() makes of it, from the same VM.
\* ---------------------------------------------------------------------

\* the passes of execute from x on, up to the end of the code, a halt or
\* an abort; prints collects the lines the passes printed
RECURSIVE run_rest(_, _, _)
RECURSIVE run_next(_, _, _)
run_rest(x, prints, fuel) ==
    IF x.kind # "Run" \/ x.vm.pc >= Len(x.vm.bytecodes) \/ fuel = 0
    THEN [x |-> x, prints |-> prints]
    ELSE run_next(dispatch(x.vm, x.heap, "assert"), prints, fuel)
run_next(y, prints, fuel) ==
    run_rest(y, IF IsSome(y.out) THEN Append(prints, Unwrap(y.out)) ELSE prints,
             fuel - 1)

execute_all(v, h) ==
    run_rest([vm |-> execute_begin(v), heap |-> h, out |-> None, kind |-> "Run"],
             <<>>, MaxSteps)

\* what a run shows: how it ended, the error, the lines printed, and
\* last_popped and the stack entries as debug_format writes their values
Observed(r) ==
    LET M == Mem(r.x.vm.constants, r.x.heap) IN
    [kind |-> r.x.kind,
     error |-> r.x.vm.error,
     prints |-> r.prints,
     last_popped |->
        IF IsSome(r.x.vm.last_popped)
        THEN Some(debug_format(M, Deref(M, Unwrap(r.x.vm.last_popped))))
        ELSE None,
     stack |-> [j \in DOMAIN r.x.vm.stack |->
                    debug_format(M, Deref(M, r.x.vm.stack[j]))]]

\* statements with jumps and a print, after `a = 0; i = 1` and before `2`
BranchStatements ==
    {SExprStmt(EIf(EBool(c), <<SExprStmt(EInt(<<5>>))>>, other)) :
        c \in BOOLEAN, other \in {<<>>, <<SExprStmt(EInt(<<7>>))>>}}
        \cup {SExprStmt(EWhile(EBool(FALSE), <<SExprStmt(EInt(<<5>>))>>)),
              SDebugPrint(EGetVar("i"))}

OptimizePrograms ==
    {p \in ArrayPrograms : p[3].expr.k = "Index"}
        \cup {<<SExprStmt(ESetVar("a", EInt(<<0>>))),
                SExprStmt(ESetVar("i", EInt(<<1>>))),
                s,
                SExprStmt(EInt(<<2>>))>> : s \in BranchStatements}

InitOptimize ==
    /\ vm = [VMDefault EXCEPT !.repl_mode = TRUE]
    /\ cur \in OptimizePrograms
    /\ heap = <<>>
    /\ allocations = <<>>
    /\ phase = "read"
    /\ lineNo = 1
    /\ output = <<>>
    /\ crashed = FALSE
    /\ steps = 0
    /\ locals = {}

NextOptimize ==
    \/ CompileLoop
    \/ Optimize
    \/ ExecuteBegin
    \/ Step
    \/ ExecuteReturn

SpecOptimize == InitOptimize /\ [][NextOptimize]_vars

\* C30: for the code compile() produced, the run of the optimized code
\* from the same VM ends the same way, with the same error, the same
\* prints, the same last_popped and the same stack as the run of the code
\* as compiled
C30_OptimizePreservesBehaviour ==
    phase = "compiled" /\ ~IsSome(vm.error) =>
        Observed(execute_all(optimize(vm), heap)) = Observed(execute_all(vm, heap))

\* ---------------------------------------------------------------------
\* The operand table.
\* ---------------------------------------------------------------------

\* the addresses a walk of the code from address i on visits when it steps
\* over operands(opcode) units after each opcode, as the loop of optimize does
RECURSIVE operands_walk(_, _)
operands_walk(bytecodes, i) ==
    IF i >= Len(bytecodes) THEN {}
    ELSE {i} \cup operands_walk(bytecodes, i + 1 + operands(bytecodes[i + 1]))

Jumps == {JUMP, JUMP_IF_FALSE, JUMP_IF_FALSE_NO_POP}

\* C31: a pass of execute that goes on to the next opcode has read
\* operands(opcode) units after the opcode (a jump that is taken has read
\* its one operand), and the walk of compiled code by operands() visits
\* exactly the addresses of the opcodes
C31_OperandsMatchExecute ==
    [][/\ Dispatching /\ phase' = "executing" =>
            \/ vm'.pc = vm.pc + 1 + operands(NextOpcode)
            \/ NextOpcode \in Jumps /\ operands(NextOpcode) = 1
                    /\ vm'.pc = NextOperand
       /\ phase = "compiled" /\ ~IsSome(vm.error) =>
            operands_walk(vm.bytecodes, 0) = OpcodesFrom(vm.bytecodes, 0)]_vars

\* ---------------------------------------------------------------------
\* Statements and the height of the stack.  The programs are
\* `a = [1, 2]; i = 0` followed by one or two statements that bind no
\* new name.
\* ---------------------------------------------------------------------
MaxFollowing == 2

\* i = i + 1
Increment == SExprStmt(ESetVar("i", EInfix(EGetVar("i"), "+", EInt(<<1>>))))

PlainStatements ==
    {SExprStmt(EGetVar("i")),
     SExprStmt(EIndex(EGetVar("a"), EGetVar("i"))),
     SExprStmt(EInfix(EGetVar("i"), "+", EInt(<<1>>))),
     Increment,
     SDebugPrint(EGetVar("i")),
     SDebugPrint(EGetVar("a"))}

PointerStatements ==
    {SPointerAssign(EIndex(EGetVar("a"), EGetVar("i")), EInt(<<5>>)),
     SPointerAssign(EIndex(EGetVar("a"), EInt(<<1>>)), EGetVar("i"))}

\* while i < 2 { s; i = i + 1 }
Repeated(s) ==
    SExprStmt(EWhile(EInfix(EGetVar("i"), "<", EInt(<<2>>)), <<s, Increment>>))

FollowingStatements ==
    PlainStatements \cup PointerStatements
        \cup {Repeated(s) : s \in PlainStatements \cup PointerStatements}

StatementPrograms ==
    {<<SExprStmt(ESetVar("a", EArray(<<EInt(<<1>>), EInt(<<2>>)>>))),
       SExprStmt(ESetVar("i", EInt(<<0>>)))>> \o following :
        following \in UNION {[1..n -> FollowingStatements] : n \in 1..MaxFollowing}}

InitStatements ==
    /\ vm = [VMDefault EXCEPT !.repl_mode = TRUE]
    /\ cur \in StatementPrograms
    /\ heap = <<>>
    /\ allocations = <<>>
    /\ phase = "read"
    /\ lineNo = 1
    /\ output = <<>>
    /\ crashed = FALSE
    /\ steps = 0
    /\ locals = {}

NextStatements ==
    \/ CompileLoop
    \/ Optimize
    \/ ExecuteBegin
    \/ Step
    \/ ExecuteReturn

SpecStatements == InitStatements /\ [][NextStatements]_vars

\* pc is at the first unit of a top-level statement after the second, or
\* at the end of the code
AtStatementStart ==
    /\ phase \in {"executing", "executed"}
    /\ ~IsSome(vm.error)
    /\ \/ vm.pc = Len(vm.bytecodes)
       \/ /\ vm.pc < Len(vm.bytecodes)
          /\ vm.pc > 0
          /\ vm.lines[vm.pc + 1][1] > 2
          /\ vm.lines[vm.pc + 1][1] # vm.lines[vm.pc][1]

\* C32: where a statement that binds no name begins and where the code
\* ends, the stack holds the local slots and nothing above them
C32_StatementsAreStackNeutral ==
    AtStatementStart => Len(vm.stack) = vm.current_compiler.count

\* ---------------------------------------------------------------------
\* The scopes of the compiler between the lines of a session.
\* ---------------------------------------------------------------------

BoundSlots(cc) ==
    UNION {{cc.local_map[k][n] : n \in DOMAIN cc.local_map[k]} :
                k \in DOMAIN cc.local_map}

\* the pairs <<scope, name>> bound in the open scope maps
NamesBound(cc) ==
    UNION {{<<k, n>> : n \in DOMAIN cc.local_map[k]} : k \in DOMAIN cc.local_map}

\* C33: before and after every compile() of the session, scope_depth + 1
\* is the number of open scope maps, count is the number of names bound in
\* them, and the slots bound are 0 .. count - 1, each by one name
C33_ScopesConsistent ==
    LET cc == vm.current_compiler IN
    /\ cc.scope_depth + 1 = Len(cc.local_map)
    /\ cc.count = Cardinality(NamesBound(cc))
    /\ BoundSlots(cc) = 0 .. cc.count - 1

\* ---------------------------------------------------------------------
\* The value of an if expression.  The programs are `a = [1, 2]; i = 0`
\* followed by one if expression as a statement.
\* ---------------------------------------------------------------------
MaxBranch == 2

BranchBodyStatements ==
    {SExprStmt(EInt(<<5>>)),
     SExprStmt(EGetVar("i")),
     SDebugPrint(EGetVar("i")),
     SExprStmt(ESetVar("b", EInt(<<7>>))),
     SPointerAssign(EIndex(EGetVar("a"), EInt(<<0>>)), EInt(<<5>>))}

ThenBranches == UNION {[1..n -> BranchBodyStatements] : n \in 0..MaxBranch}
ElseBranches == UNION {[1..n -> BranchBodyStatements] : n \in 0..1}
BranchConditions == {EBool(TRUE), EBool(FALSE), EInt(<<0>>)}

BranchPrograms ==
    {<<SExprStmt(ESetVar("a", EArray(<<EInt(<<1>>), EInt(<<2>>)>>))),
       SExprStmt(ESetVar("i", EInt(<<0>>))),
       SExprStmt(EIf(c, body, other))>> :
        c \in BranchConditions, body \in ThenBranches, other \in ElseBranches}

InitBranches ==
    /\ vm = [VMDefault EXCEPT !.repl_mode = TRUE]
    /\ cur \in BranchPrograms
    /\ heap = <<>>
    /\ allocations = <<>>
    /\ phase = "read"
    /\ lineNo = 1
    /\ output = <<>>
    /\ crashed = FALSE
    /\ steps = 0
    /\ locals = {}

NextBranches ==
    \/ CompileLoop
    \/ Optimize
    \/ ExecuteBegin
    \/ Step
    \/ ExecuteReturn

SpecBranches == InitBranches /\ [][NextBranches]_vars

\* the value of a condition or of a final expression after
\* `a = [1, 2]; i = 0`
ScalarValue(e) ==
    CASE e.k = "Int" -> VInt(Unwrap(ParseI64(e.value)))
      [] e.k = "Bool" -> VBool(e.value)
      [] e.k = "GetVar" -> VInt(0)
      [] e.k = "SetVar" -> VInt(7)

\* the value of a branch: that of its final expression statement, else null
BranchValue(body) ==
    IF body # <<>> /\ body[Len(body)].k = "ExprStmt"
    THEN ScalarValue(body[Len(body)].expr)
    ELSE VNull

\* the branch the condition of the program selects
BranchTaken ==
    IF is_truthy(ScalarValue(cur[3].expr.cond))
    THEN cur[3].expr.body
    ELSE cur[3].expr.other

\* the value of the if expression of the program
IfValue == BranchValue(BranchTaken)

\* the local slots a branch adds: one when it assigns b
BranchSlots(body) ==
    IF \E j \in DOMAIN body : body[j].k = "ExprStmt" /\ body[j].expr.k = "SetVar"
    THEN 1 ELSE 0

\* the run of the code as compiled ended without error, the statement
\* popped the value expected, and the stack holds the locals a and i, the
\* slot of a local of the branch, and nothing else
PushedOne(obs, expected, slots) ==
    /\ obs.kind = "Run"
    /\ ~IsSome(obs.error)
    /\ obs.last_popped = Some(debug_format(Memory, expected))
    /\ Len(obs.stack) = 2 + slots

\* C34: the code compiled for an if expression pushes one value on the
\* path taken: the value of the final expression statement of the branch
\* the condition selects, or null when that branch is empty, is missing or
\* ends in another kind of statement
C34_IfPushesOneValue ==
    phase = "compiled" /\ ~IsSome(vm.error) =>
        PushedOne(Observed(execute_all(vm, heap)), IfValue, BranchSlots(BranchTaken))

\* ---------------------------------------------------------------------
\* The POP_LAST a block strips.  The programs are `a = [1, 2]; i = 0`
\* followed by one statement that holds a `do` block or an if branch.
\* ---------------------------------------------------------------------
BlockBodies ==
    {<<>>,
     <<SExprStmt(EInt(<<5>>))>>,
     <<SExprStmt(EGetVar("i"))>>,
     <<SDebugPrint(EGetVar("i"))>>,
     <<SExprStmt(EInt(<<5>>)), SExprStmt(EInt(<<7>>))>>,
     <<SExprStmt(EInt(<<5>>)), SDebugPrint(EGetVar("i"))>>,
     <<SPointerAssign(EIndex(EGetVar("a"), EInt(<<0>>)), EInt(<<5>>))>>,
     <<SExprStmt(EDo(<<>>))>>}

\* do { body }; b = do { body }; i == do { body }; if true { body }
BlockForms(body) ==
    {EDo(body),
     ESetVar("b", EDo(body)),
     EInfix(EGetVar("i"), "==", EDo(body)),
     EIf(EBool(TRUE), body, <<>>)}

BlockPrologue ==
    <<SExprStmt(ESetVar("a", EArray(<<EInt(<<1>>), EInt(<<2>>)>>))),
      SExprStmt(ESetVar("i", EInt(<<0>>)))>>

BlockPrograms ==
    {Append(BlockPrologue, SExprStmt(e)) :
        e \in UNION {BlockForms(body) : body \in BlockBodies}}

InitBlocks ==
    /\ vm = [VMDefault EXCEPT !.repl_mode = TRUE]
    /\ cur \in BlockPrograms
    /\ heap = <<>>
    /\ allocations = <<>>
    /\ phase = "read"
    /\ lineNo = 1
    /\ output = <<>>
    /\ crashed = FALSE
    /\ steps = 0
    /\ locals = {}

NextBlocks ==
    \/ CompileLoop
    \/ Optimize
    \/ ExecuteBegin
    \/ Step
    \/ ExecuteReturn

SpecBlocks == InitBlocks /\ [][NextBlocks]_vars

\* the value of a block: that of its final expression statement (null for
\* an inner empty block), else null
BlockValue(body) ==
    IF body # <<>> /\ body[Len(body)].k = "ExprStmt"
                   /\ body[Len(body)].expr.k # "Do"
    THEN ScalarValue(body[Len(body)].expr)
    ELSE VNull

\* the value of the third statement
FormValue(e) ==
    CASE e.k = "Do" -> BlockValue(e.body)
      [] e.k = "SetVar" -> BlockValue(e.value.body)
      [] e.k = "Infix" -> VBool(BlockValue(e.right.body) = VInt(0))
      [] e.k = "If" -> BlockValue(e.body)

\* the code compile() makes of the first two statements alone
PrologueCode ==
    compile([VMDefault EXCEPT !.repl_mode = TRUE], BlockPrologue).vm.bytecodes

\* the run ended without error and the statement popped the value expected
PoppedValue(obs, expected) ==
    /\ obs.kind = "Run"
    /\ ~IsSome(obs.error)
    /\ obs.last_popped = Some(debug_format(Memory, expected))

\* C35: the code of the statements before the block is kept as it was, up
\* to its final POP_LAST, and the block gives the value of its own final
\* expression statement, or null when it is empty or ends otherwise
C35_BlockStripsOwnPop ==
    phase = "compiled" /\ ~IsSome(vm.error) =>
        /\ Len(vm.bytecodes) >= Len(PrologueCode)
        /\ SubSeq(vm.bytecodes, 1, Len(PrologueCode)) = PrologueCode
        /\ PoppedValue(Observed(execute_all(vm, heap)), FormValue(cur[3].expr))

\* ---------------------------------------------------------------------
\* mark, pass by pass.  While mark runs, cur is the node it was called
\* with and output is its list grey_objects.
\* ---------------------------------------------------------------------

\* mark(node) is called for a root: a White node becomes Grey and is pushed
\* (memory.rs 47-56)
MarkCall ==
    /\ phase \in {"allocated", "marked", "swept"}
    /\ \E i \in 1..Len(vm.stack) :
          /\ cur' = vm.stack[i]
          /\ IF vm.stack[i] \in DOMAIN allocations
                    /\ allocations[vm.stack[i]] = "White"
             THEN /\ allocations' = [allocations EXCEPT ![vm.stack[i]] = "Grey"]
                  /\ output' = <<vm.stack[i]>>
             ELSE /\ allocations' = allocations
                  /\ output' = <<>>
    /\ phase' = "marking"
    /\ UNCHANGED <<vm, heap, lineNo, crashed, steps, locals>>

\* the result of one pass for the node g popped from the list `rest` left
mark_pass(all, H, g, rest) ==
    IF g \in DOMAIN all /\ all[g] = "Grey"
    THEN grey_children([all EXCEPT ![g] = "Black"], rest, referenced_children(H[g]))
    ELSE [all |-> all, grey |-> rest]

\* one pass of `while !grey_objects.is_empty()` (memory.rs 57-76)
MarkPass ==
    /\ phase = "marking"
    /\ output # <<>>
    /\ LET r == mark_pass(allocations, heap, output[Len(output)],
                          SubSeq(output, 1, Len(output) - 1)) IN
       /\ allocations' = r.all
       /\ output' = r.grey
    /\ UNCHANGED <<vm, heap, phase, cur, lineNo, crashed, steps, locals>>

\* grey_objects is empty: mark returns
MarkReturn ==
    /\ phase = "marking"
    /\ output = <<>>
    /\ phase' = "marked"
    /\ UNCHANGED <<vm, heap, allocations, cur, lineNo, output, crashed, steps, locals>>

NextMarking ==
    \/ MarkCall
    \/ MarkPass
    \/ MarkReturn
    \/ Sweep

\* a call of mark runs on until it returns: nothing else holds the lock of
\* ALL_ALLOCATIONS meanwhile
SpecMarking ==
    InitWhite /\ [][NextMarking]_vars /\ WF_vars(MarkPass) /\ WF_vars(MarkReturn)

\* the children of cell c that are in the table
ChildrenOf(c) ==
    {heap[c].a[i] : i \in 1..(IF heap[c].t = "Array" THEN Len(heap[c].a) ELSE 0)}
        \cap DOMAIN allocations

\* a step of mark changes the colour of a cell from White to Grey or from
\* Grey to Black only
ColourOrder ==
    \A c \in DOMAIN allocations :
        \/ allocations'[c] = allocations[c]
        \/ allocations[c] = "White" /\ allocations'[c] = "Grey"
        \/ allocations[c] = "Grey" /\ allocations'[c] = "Black"

\* no cell is Grey and no Black cell has a White child
MarkComplete ==
    /\ \A c \in DOMAIN allocations : allocations[c] # "Grey"
    /\ \A c \in DOMAIN allocations :
          allocations[c] = "Black" => \A d \in ChildrenOf(c) : allocations[d] # "White"

\* C36: every call of mark returns, on heaps with Arrays that hold
\* themselves or form longer cycles too; while it runs a cell goes from
\* White to Grey and from Grey to Black and never back, so it is Grey at
\* most once and Black at most once; when mark has returned no cell is
\* Grey and no Black cell has a White child
C36_MarkTerminates ==
    /\ [][phase' = "marking" => DOMAIN allocations' = DOMAIN allocations /\ ColourOrder]_vars
    /\ [](phase = "marked" => MarkComplete)
    /\ (phase = "marking" ~> phase = "marked")

\* C36 witness: mark has returned for the root 1, an Array that holds
\* itself and cell 2, and cell 2 holds cell 1: both are Black, cell 3 is
\* White
C36_Witness ==
    /\ phase = "marked"
    /\ cur = 1
    /\ heap[1] = VArray(<<1, 2>>)
    /\ heap[2] = VArray(<<1>>)
    /\ allocations = (1 :> "Black" @@ 2 :> "Black" @@ 3 :> "White")

\* C37: a sweep() removes from the table the cells that were White and no
\* other, turns every Black cell White and leaves the state of every other
\* cell as it was, so that no Black or Grey cell is left
C37_SweepRemovesWhite ==
    [][phase' = "swept"
        => /\ DOMAIN allocations' = {c \in DOMAIN allocations : allocations[c] # "White"}
           /\ \A c \in DOMAIN allocations' :
                 allocations'[c] =
                    IF allocations[c] = "Black" THEN "White" ELSE allocations[c]
           /\ \A c \in DOMAIN allocations' : allocations'[c] \notin {"Black", "Grey"}
      ]_vars

\* ---------------------------------------------------------------------
\* The free list under any instructions.  run() takes any vector of
\* instructions: besides the statements of FramePrograms, a call may hold
\* a Pop alone.
\* ---------------------------------------------------------------------
HeapPrograms == FramePrograms \cup {<<Pop>>}

\* vm.run(instructions) is entered with any of the vectors
RunAny ==
    /\ Idle
    /\ lineNo < MaxCalls
    /\ cur' \in HeapPrograms
    /\ steps' = 0
    /\ phase' = "running"
    /\ lineNo' = lineNo + 1
    /\ UNCHANGED <<vm, heap, allocations, output, crashed, locals>>

NextHeap ==
    \/ RunAny
    \/ NewFrame
    \/ ExitFrame
    \/ RunPush
    \/ RunVar
    \/ RunMoveVar
    \/ RunPop

SpecHeap == InitFrames /\ [][NextHeap]_vars

\* the locations the names of the open frames of v are bound to
BoundLocations(v) ==
    UNION {{v.variables[k].map[n] : n \in DOMAIN v.variables[k].map} :
                k \in DOMAIN v.variables}

FreeLocations(v) == {v.heap.available[j] : j \in DOMAIN v.heap.available}

\* every entry of the free list is a cell of the heap, is listed once, and
\* is bound to no name of an open frame
FreeListSound(v) ==
    /\ \A j \in DOMAIN v.heap.available : v.heap.available[j] \in 1..Len(v.heap.value)
    /\ Cardinality(FreeLocations(v)) = Len(v.heap.available)
    /\ FreeLocations(v) \cap BoundLocations(v) = {}

\* C38: after every instruction and every new_frame() and exit_frame(),
\* each index in heap.available is a cell of heap.value, occurs once in the
\* list and is bound to no name of an open frame; a Push never aborts and
\* never writes the cell of a bound name, and a Pop never removes a cell
\* that a name is bound to or that is in the free list
C38_FreeListSound ==
    [][/\ FreeListSound(vm')
       /\ Executing("Push") =>
             /\ ~crashed'
             /\ Unwrap(vm'.last_push_location) \notin BoundLocations(vm)
       /\ Executing("Pop") =>
             Len(vm.heap.value) \notin BoundLocations(vm) \cup FreeLocations(vm)
      ]_vars

\* ---------------------------------------------------------------------
\* GET.  The loop of execute is entered at a GET that a POP_LAST follows,
\* with the elements in the cells 1 and 2, the collection in cell 3 and
\* the index in cell 4; the stack holds the handles 1, 3, 4.
\* ---------------------------------------------------------------------
GetCollections ==
    {VArray(<<>>), VArray(<<1>>), VArray(<<1, 2>>), VArray(<<2, 1, 1>>),
     VString(<<>>), VString(<<"a", "b">>), VInt(5), VNull, VBool(TRUE)}

GetIndexes ==
    {VInt(i) : i \in {I64Min, I64Max} \cup (-MaxOperand..MaxOperand)}
        \cup {VBool(TRUE), VNull, VString(<<"a">>), VArray(<<>>), VArray(<<1>>)}

InitGet ==
    /\ vm = [VMDefault EXCEPT !.repl_mode = TRUE,
                              !.bytecodes = <<GET, POP_LAST>>,
                              !.lines = <<<<1>>, <<1>>>>,
                              !.stack = <<1, 3, 4>>]
    /\ \E c \in GetCollections, ix \in GetIndexes :
          heap = <<VInt(10), VInt(20), c, ix>>
    /\ allocations = allocated(<<>>, 0, 4)
    /\ phase = "executing"
    /\ cur = 1
    /\ lineNo = 1
    /\ output = <<>>
    /\ crashed = FALSE
    /\ steps = 0
    /\ locals = {}

NextGet ==
    \/ Step
    \/ ExecuteReturn

SpecGet == InitGet /\ [][NextGet]_vars

\* the pass of GET halted with a runtime error whose message is one of
\* msgs, and pushed nothing
GetFailed(msgs) ==
    /\ phase' = "executed"
    /\ IsSome(vm'.error)
    /\ Unwrap(vm'.error).stage = "Runtime"
    /\ Unwrap(vm'.error).message \in msgs
    /\ vm'.stack = <<1>>

\* C39: GET on an Array of length n and an Int index i pushes the handle
\* the Array holds at i when 0 <= i < n, and otherwise sets an index error
\* and pushes nothing; an index that is no Int on an Array or a String, and
\* a collection that is neither, set a type error; in every case the two
\* operands are popped, the entry below them stays, and the cells of the
\* Array, of its elements and of the index are unchanged
C39_GetElement ==
    [][Dispatching /\ NextOpcode = GET =>
        LET c == heap[3]
            ix == heap[4] IN
        /\ ~crashed'
        /\ SubSeq(heap', 1, 4) = heap
        /\ c.t = "Array" /\ ix.t = "Int" /\ 0 <= ix.i /\ ix.i < Len(c.a) =>
              /\ phase' = "executing"
              /\ ~IsSome(vm'.error)
              /\ vm'.stack = <<1, c.a[ix.i + 1]>>
              /\ heap' = heap
        /\ c.t = "Array" /\ ix.t = "Int" /\ ix.i < 0 =>
              GetFailed({"Negative index not supported"})
        /\ c.t = "Array" /\ ix.t = "Int" /\ ix.i >= Len(c.a) =>
              GetFailed({"Index out of range"})
        /\ c.t = "Array" /\ ix.t # "Int" =>
              GetFailed({"Array index must be an integer"})
        /\ c.t = "String" /\ ix.t # "Int" =>
              GetFailed({"String index must be an integer"})
        /\ c.t \notin {"Array", "String"} =>
              GetFailed({"Cannot get element from type"})
      ]_vars

\* the Array <<2, 1, 1>> was indexed with 0: the handle 2 of its first
\* element is on the stack above the entry that was below the operands
C39_Witness ==
    /\ steps = 1
    /\ phase = "executing"
    /\ heap = <<VInt(10), VInt(20), VArray(<<2, 1, 1>>), VInt(0)>>
    /\ vm.stack = <<1, 2>>

(***************************************************************************)
(* Locals and array elements (vm_bc.rs 728-764, value.rs 437-455).  The    *)
(* programs bind two scalar locals a and b, bind arr to an array literal   *)
(* that mentions them or not, and go on with assignments through elements  *)
(* of arr, assignments to the locals and reads.                            *)
(***************************************************************************)
AliasLiterals ==
    {EArray(<<EGetVar("a")>>),
     EArray(<<EGetVar("a"), EGetVar("b")>>),
     EArray(<<EInt(<<3>>), EGetVar("b")>>),
     EArray(<<EInt(<<3>>), EInt(<<4>>)>>),
     EArray(<<EInfix(EGetVar("a"), "+", EInt(<<0>>)), EGetVar("a")>>)}

ElementAssigns ==
    {SPointerAssign(EIndex(EGetVar("arr"), EInt(<<0>>)), EInt(<<5>>)),
     SPointerAssign(EIndex(EGetVar("arr"), EInt(<<1>>)), EGetVar("b")),
     SPointerAssign(EIndex(EGetVar("arr"), EInt(<<0>>)), EString("x"))}

LocalStatements ==
    {SExprStmt(EGetVar("a")),
     SExprStmt(ESetVar("a", EInt(<<7>>))),
     SExprStmt(ESetVar("b", EInfix(EGetVar("a"), "+", EInt(<<1>>)))),
     SDebugPrint(EGetVar("b"))}

AliasPrograms ==
    {<<SExprStmt(ESetVar("a", EInt(<<1>>))),
       SExprStmt(ESetVar("b", EInt(<<2>>))),
       SExprStmt(ESetVar("arr", literal))>> \o following :
        literal \in AliasLiterals,
        following \in UNION {[1..n -> ElementAssigns \cup LocalStatements] :
                                n \in 1..MaxFollowing}}

InitAlias ==
    /\ vm = [VMDefault EXCEPT !.repl_mode = TRUE]
    /\ cur \in AliasPrograms
    /\ heap = <<>>
    /\ allocations = <<>>
    /\ phase = "read"
    /\ lineNo = 1
    /\ output = <<>>
    /\ crashed = FALSE
    /\ steps = 0
    /\ locals = {}

NextAlias ==
    \/ CompileLoop
    \/ Optimize
    \/ ExecuteBegin
    \/ Step
    \/ ExecuteReturn

SpecAlias == InitAlias /\ [][NextAlias]_vars

\* the local slots the arm of the opcode at pc does not assign
LocalsKept ==
    {p \in locals :
        p < low /\ ~(NextOpcode = REPLACE /\ HasOperand /\ p = NextOperand)}

\* C40: a pass of the execute loop that goes on leaves the value read from
\* every local slot that holds a scalar as it was, unless the pass is the
\* REPLACE that assigns the slot; in particular no SET_IN_PLACE through an
\* element of an array changes the value of a local
C40_LocalsChangeOnlyByAssignment ==
    [][Dispatching /\ phase' = "executing" =>
          \A p \in LocalsKept :
              Deref(Memory, vm.stack[p + 1]).t # "Array" =>
                  /\ p < Len(vm'.stack)
                  /\ Deref(Memory', vm'.stack[p + 1]) = Deref(Memory, vm.stack[p + 1])]_vars

====
